---- MODULE Spec2Model ----
(***************************************************************************)
(* A model of tiny-agent: the conversation context engine                  *)
(* (core/context.py), the agent state tracker (core/state.py), the tool    *)
(* execution sandbox (core/tools.py) and the provider tool-call loop       *)
(* (core/ai_providers.py, cli.py).                                         *)
(*                                                                         *)
(* Text is modelled as a sequence of chunks.  A chunk is a fixed piece of  *)
(* text with a known character length (ChunkLen); the text of a sequence   *)
(* is the concatenation of its chunks, so length, emptiness, prefix tests  *)
(* and concatenation are computed as the code computes them on strings.    *)
(***************************************************************************)
EXTENDS Integers, Sequences, FiniteSets, TLC

VARIABLES
    messages,      \* ContextManager.messages
    summary,       \* ContextManager.summary
    max_turns,     \* ContextManager.max_turns
    keep_recent,   \* ContextManager.keep_recent
    token_limit,   \* ContextManager.token_limit (effective, after line 83)
    hypothesis,    \* StateManager.hypothesis
    tool_events,   \* StateManager.tool_events
    denial_count,  \* StateManager.denial_count
    st_summary,    \* StateManager.summary
    context_info,  \* StateManager.context_info
    skills,        \* StateManager.skills
    ALLOWED_COMMANDS, \* tools.ALLOWED_COMMANDS
    root_dir,      \* ToolSuite.root_dir is set
    provider,      \* name of the provider built by cli.build_provider
    pc,            \* where the session is: at the prompt, about to compact, in
                   \* generate before a backend call, or handling tool calls
    pending,       \* tool calls of the current backend response not yet executed
    loops,         \* tool rounds completed by the running generate
    turn,          \* bookkeeping of the current user turn
    last           \* the last operation performed, its inputs and its outcome

ctxVars == <<messages, summary, max_turns, keep_recent, token_limit>>
stVars == <<hypothesis, tool_events, denial_count, st_summary, context_info, skills>>
toolVars == <<ALLOWED_COMMANDS, root_dir, provider>>
sessVars == <<pc, pending, loops, turn>>
vars == <<messages, summary, max_turns, keep_recent, token_limit,
          hypothesis, tool_events, denial_count, st_summary, context_info, skills,
          ALLOWED_COMMANDS, root_dir, provider, pc, pending, loops, turn, last>>

NONE == "None"
\* None where a text is expected
NoText == <<NONE>>

Max(a, b) == IF a >= b THEN a ELSE b
Min(a, b) == IF a <= b THEN a ELSE b

(***************************************************************************)
(* Bounds of the model.                                                    *)
(***************************************************************************)
\* longest message log the context specification builds
MaxLog == 5
\* largest constructor argument tried (the smallest is -2)
MaxArg == 21
\* longest tool-event log: execute is not called once it is reached
MaxEvents == 4

(***************************************************************************)
(* Text.                                                                   *)
(***************************************************************************)
MARKER == "## Conversation Summary"
SYSTEM_PROMPT == <<"SYSTEM_PROMPT">>

\* number of characters of each chunk of text
ChunkLen(c) ==
    CASE c = MARKER -> 23
      [] c = "SYSTEM_PROMPT" -> 1364
      [] c = "\n" -> 1
      [] c = "hi" -> 2
      [] c = "MED" -> 1000
      [] c = "BIG" -> 2000
      [] OTHER -> 8

RECURSIVE StrLen(_)
StrLen(s) == IF s = <<>> THEN 0 ELSE ChunkLen(Head(s)) + StrLen(Tail(s))

\* str.startswith("## Conversation Summary")
StartsWithMarker(s) == Len(s) >= 1 /\ s[1] = MARKER

approx_token_countHalf(text) ==
    IF text = <<>> THEN 0 ELSE Max(1, StrLen(text) \div 2)

approx_token_count(text) ==
    IF text = <<>> THEN 0 ELSE Max(1, StrLen(text) \div 4)

(***************************************************************************)
(* Messages.                                                               *)
(***************************************************************************)
Roles == {"system", "user", "assistant", "tool"}

RoleRaisesNever(role) == FALSE

\* Role.validate: None becomes user, a known role is kept, anything else raises
RoleRaises(role) == role /= NONE /\ role \notin Roles
RoleValidate(role) == IF role = NONE THEN "user" ELSE role

\* Message.__init__: content None becomes "", tool_calls None is the empty sequence
Message(role, content, tool_calls, tool_call_id) ==
    [role |-> RoleValidate(role),
     content |-> IF content = NoText THEN <<>> ELSE content,
     name |-> NONE,
     tool_calls |-> tool_calls,
     tool_call_id |-> tool_call_id]

IsSystem(m) == m.role = "system"

IsTurnAnyRole(m) == m.role /= "system"

\* recent_messages' test of a chat turn (line 123)
IsTurn(m) == m.role = "user" \/ (m.role = "assistant" /\ m.tool_calls = <<>>)

\* maybe_summarize's test of a chat message (line 202)
IsChatAny(m) == m.role \notin {"system"}

IsChat(m) == m.role \notin {"system", "tool"} /\ m.tool_calls = <<>>

CountSeq(s, P(_)) == Len(SelectSeq(s, P))

(***************************************************************************)
(* ContextManager.                                                         *)
(***************************************************************************)
MAX_TURNS == 20
TOKEN_LIMIT == 20000
MESSAGES_AFTER_SUMMARIZATION == 5

\* ContextManager.__init__ without the replacement of values below 1
ConstructRaw(mt, tl, kr) ==
    IF kr >= mt
    THEN [raised |-> TRUE, max_turns |-> mt, keep_recent |-> kr, token_limit |-> tl]
    ELSE [raised |-> FALSE, max_turns |-> mt, keep_recent |-> kr,
          token_limit |-> tl + approx_token_count(SYSTEM_PROMPT) + 150]

\* ContextManager.__init__(max_turns, token_limit, keep_recent)
Construct(mt, tl, kr) ==
    LET m == IF mt >= 1 THEN mt ELSE MAX_TURNS
        k == IF kr >= 1 THEN kr ELSE MESSAGES_AFTER_SUMMARIZATION
        t == IF tl >= 1 THEN tl ELSE TOKEN_LIMIT
    IN IF k >= m
       THEN [raised |-> TRUE, max_turns |-> m, keep_recent |-> k, token_limit |-> t]
       ELSE [raised |-> FALSE, max_turns |-> m, keep_recent |-> k,
             token_limit |-> t + approx_token_count(SYSTEM_PROMPT) + 150]

NonSystem(msgs) == SelectSeq(msgs, LAMBDA m : ~IsSystem(m))

\* the backward walk of recent_messages: the index in ns where the result starts
RECURSIVE ScanBack(_, _, _, _)
ScanBack(ns, i, turn_count, limit) ==
    IF i = 0 THEN 1
    ELSE IF IsTurn(ns[i])
         THEN IF turn_count + 1 >= limit THEN i
              ELSE ScanBack(ns, i - 1, turn_count + 1, limit)
         ELSE ScanBack(ns, i - 1, turn_count, limit)

\* a plain tail of the non-system messages, tool messages counted like the rest
recent_messagesTail(msgs, limit) ==
    LET ns == NonSystem(msgs)
    IN SubSeq(ns, Max(1, Len(ns) - limit + 1), Len(ns))

\* ContextManager.recent_messages(limit)
recent_messages(msgs, limit) ==
    LET ns == NonSystem(msgs)
    IN SubSeq(ns, ScanBack(ns, Len(ns), 0, limit), Len(ns))

\* the system messages that are not summary markers (lines 134-135, 233-236)
OriginalSystem(msgs) ==
    SelectSeq(msgs, LAMBDA m : IsSystem(m) /\ ~StartsWithMarker(m.content))

SummaryMessage(summ) == Message("system", <<MARKER, "\n">> \o summ, <<>>, NONE)

\* ContextManager.summary_plus_recent(limit)
summary_plus_recent(msgs, summ, limit) ==
    OriginalSystem(msgs)
        \o (IF summ /= <<>> THEN <<SummaryMessage(summ)>> ELSE <<>>)
        \o recent_messages(msgs, limit)

MODE_FULL == 1
MODE_RECENT == 2
MODE_SUMMARY_PLUS_RECENT == 3

context_sliceDropLast(msgs, summ, mode, limit) ==
    IF msgs = <<>> THEN msgs ELSE SubSeq(msgs, 1, Len(msgs) - 1)

context_sliceWider(msgs, summ, mode, limit) ==
    SelectSeq(msgs, IsSystem) \o recent_messages(msgs, limit + 1)

\* ContextManager.context_slice(mode, limit)
context_slice(msgs, summ, mode, limit) ==
    CASE mode = MODE_FULL -> msgs
      [] mode = MODE_RECENT -> SelectSeq(msgs, IsSystem) \o recent_messages(msgs, limit)
      [] mode = MODE_SUMMARY_PLUS_RECENT -> summary_plus_recent(msgs, summ, limit)

chat_countAny(msgs) == CountSeq(msgs, IsChatAny)

chat_countUsers(msgs) == Len(SelectSeq(msgs, LAMBDA m : m.role = "user"))

\* chat_count of maybe_summarize (lines 200-203)
chat_count(msgs) == CountSeq(msgs, IsChat)

RECURSIVE SumTokens(_)
SumTokens(s) ==
    IF s = <<>> THEN 0 ELSE approx_token_count(Head(s).content) + SumTokens(Tail(s))

token_countChat(msgs) == SumTokens(SelectSeq(msgs, IsChat))

\* ContextManager._token_count
token_count(msgs) == SumTokens(NonSystem(msgs))

needs_trimAtLeast(msgs, mt) == chat_count(msgs) >= mt

needs_trim(msgs, mt) == chat_count(msgs) > mt

needs_summary(msgs, tl) == token_count(msgs) >= tl

\* the condition under which maybe_summarize goes on to summarize (lines 205-208)
needs_compaction(msgs, mt, tl) == needs_trim(msgs, mt) \/ needs_summary(msgs, tl)

RebuiltKeepMarkers(msgs, text, keep) ==
    SelectSeq(msgs, IsSystem) \o <<SummaryMessage(text)>> \o recent_messages(msgs, keep)

RebuiltMarkerFirst(msgs, text, keep) ==
    <<SummaryMessage(text)>> \o OriginalSystem(msgs) \o recent_messages(msgs, keep)

\* the log rebuilt after a summary (lines 233-244)
Rebuilt(msgs, text, keep) ==
    OriginalSystem(msgs) \o <<SummaryMessage(text)>> \o recent_messages(msgs, keep)

ApplySummaryAlways(msgs, summ, text, keep) ==
    [messages |-> Rebuilt(msgs, text, keep), summary |-> text]

\* maybe_summarize after the summarizer has answered (lines 228-244)
ApplySummary(msgs, summ, text, keep) ==
    IF text = <<>>
    THEN [messages |-> msgs, summary |-> summ]
    ELSE [messages |-> Rebuilt(msgs, text, keep), summary |-> text]

(***************************************************************************)
(* The command validator of core/tools.py.  A command is a sequence of     *)
(* characters; a word such as "ls" stands for a run of letters that holds  *)
(* none of the special characters.                                         *)
(***************************************************************************)
BACKSLASH == "<backslash>"
SQUOTE == "<squote>"
DQUOTE == "<dquote>"
BACKTICK == "<backtick>"
SPACE == " "

\* _DANGEROUS_PATTERN with the look-behind applied to every alternative
DangerousAllEscapable(command) ==
    \E i \in 1 .. Len(command) :
        /\ (i = 1 \/ command[i - 1] /= BACKSLASH)
        /\ \/ command[i] = ";"
           \/ command[i] = "&" /\ i < Len(command) /\ command[i + 1] = "&"
           \/ command[i] = BACKTICK
           \/ command[i] = "$" /\ i < Len(command) /\ command[i + 1] = "("

\* _DANGEROUS_PATTERN.search(command): a semicolon not preceded by a backslash,
\* two ampersands, a backtick, or a dollar sign followed by an open parenthesis
Dangerous(command) ==
    \E i \in 1 .. Len(command) :
        \/ command[i] = ";" /\ (i = 1 \/ command[i - 1] /= BACKSLASH)
        \/ command[i] = "&" /\ i < Len(command) /\ command[i + 1] = "&"
        \/ command[i] = BACKTICK
        \/ command[i] = "$" /\ i < Len(command) /\ command[i + 1] = "("

RECURSIVE LStrip(_)
LStrip(s) == IF s /= <<>> /\ Head(s) = SPACE THEN LStrip(Tail(s)) ELSE s

RECURSIVE RStrip(_)
RStrip(s) ==
    IF s /= <<>> /\ s[Len(s)] = SPACE THEN RStrip(SubSeq(s, 1, Len(s) - 1)) ELSE s

\* str.strip()
Strip(s) == RStrip(LStrip(s))

\* the loop of _split_pipe_commands from character i on
RECURSIVE SplitScan(_, _, _, _, _, _, _)
SplitScan(command, i, segments, current, in_single, in_double, prev) ==
    IF i > Len(command) THEN Append(segments, current)
    ELSE LET ch == command[i]
         IN IF prev /= BACKSLASH /\ ch = SQUOTE /\ ~in_double
            THEN SplitScan(command, i + 1, segments, Append(current, ch),
                           ~in_single, in_double, ch)
            ELSE IF prev /= BACKSLASH /\ ch = DQUOTE /\ ~in_single
            THEN SplitScan(command, i + 1, segments, Append(current, ch),
                           in_single, ~in_double, ch)
            ELSE IF prev /= BACKSLASH /\ ch = "|" /\ ~in_single /\ ~in_double
            THEN SplitScan(command, i + 1, Append(segments, current), <<>>,
                           in_single, in_double, ch)
            ELSE SplitScan(command, i + 1, segments, Append(current, ch),
                           in_single, in_double, ch)

split_pipe_commandsStripped(command) ==
    LET segments == SplitScan(command, 1, <<>>, <<>>, FALSE, FALSE, "")
    IN [k \in 1 .. Len(segments) |-> Strip(segments[k])]

\* _split_pipe_commands(command)
split_pipe_commands(command) == SplitScan(command, 1, <<>>, <<>>, FALSE, FALSE, "")

\* shlex.split(segment): the posix lexer with whitespace_split, from character i on.
\* state is " " (between tokens), "a" (in a word), a quote or the escape character.
RECURSIVE ShlexScan(_, _, _, _, _, _, _)
ShlexScan(seg, i, state, escapedstate, token, quoted, parts) ==
    IF i > Len(seg)
    THEN IF state \in {SQUOTE, DQUOTE, BACKSLASH}
         THEN [raised |-> TRUE, parts |-> parts]
         ELSE [raised |-> FALSE,
               parts |-> IF token /= <<>> \/ quoted THEN Append(parts, token) ELSE parts]
    ELSE LET ch == seg[i]
         IN IF state \in {" ", "a"}
            THEN IF ch = SPACE
                 THEN IF token /= <<>> \/ quoted
                      THEN ShlexScan(seg, i + 1, " ", " ", <<>>, FALSE, Append(parts, token))
                      ELSE ShlexScan(seg, i + 1, " ", " ", token, quoted, parts)
                 ELSE IF ch = BACKSLASH
                 THEN ShlexScan(seg, i + 1, BACKSLASH, "a", token, quoted, parts)
                 ELSE IF ch \in {SQUOTE, DQUOTE}
                 THEN ShlexScan(seg, i + 1, ch, escapedstate, token, TRUE, parts)
                 ELSE ShlexScan(seg, i + 1, "a", escapedstate, Append(token, ch), quoted, parts)
            ELSE IF state \in {SQUOTE, DQUOTE}
            THEN IF ch = state
                 THEN ShlexScan(seg, i + 1, "a", escapedstate, token, TRUE, parts)
                 ELSE IF ch = BACKSLASH /\ state = DQUOTE
                 THEN ShlexScan(seg, i + 1, BACKSLASH, state, token, TRUE, parts)
                 ELSE ShlexScan(seg, i + 1, state, escapedstate, Append(token, ch), TRUE, parts)
            ELSE \* state is the escape character
                 LET kept == IF escapedstate \in {SQUOTE, DQUOTE}
                                  /\ ch /= BACKSLASH /\ ch /= escapedstate
                             THEN Append(token, BACKSLASH) ELSE token
                 IN ShlexScan(seg, i + 1, escapedstate, escapedstate, Append(kept, ch),
                              quoted, parts)

\* shlex.split(segment)
shlex_split(seg) == ShlexScan(seg, 1, " ", " ", <<>>, FALSE, <<>>)

\* the allowlist loop of _validate_command over the segments from index k on
RECURSIVE CheckSegments(_, _, _)
CheckSegments(segments, k, allowed) ==
    IF k > Len(segments) THEN [kind |-> "pass", text |-> <<>>]
    ELSE LET segment == Strip(segments[k])
             lexed == shlex_split(segment)
         IN IF segment = <<>> THEN CheckSegments(segments, k + 1, allowed)
            ELSE IF lexed.raised
            THEN [kind |-> "error", text |-> <<"Malformed command segment: ">> \o segment]
            ELSE IF lexed.parts /= <<>> /\ lexed.parts[1] \notin allowed
            THEN [kind |-> "denied",
                  text |-> <<"Command ">> \o lexed.parts[1] \o <<" not allowed. Allowed: ...">>]
            ELSE CheckSegments(segments, k + 1, allowed)

validate_commandAlwaysListed(command, allowed) ==
    IF Dangerous(command)
    THEN [kind |-> "error", text |-> <<"Shell chaining operators not allowed.">>]
    ELSE CheckSegments(split_pipe_commands(command), 1, allowed)

\* ToolSuite._validate_command(command): passes, raises ToolError or raises
\* ToolDeniedError
validate_command(command, allowed) ==
    IF Dangerous(command)
    THEN [kind |-> "error", text |-> <<"Shell chaining operators not allowed.">>]
    ELSE IF allowed = {} THEN [kind |-> "pass", text |-> <<>>]
    ELSE CheckSegments(split_pipe_commands(command), 1, allowed)

(***************************************************************************)
(* StateManager.                                                           *)
(***************************************************************************)
MAX_DENIALS == 3

add_denialCapped(count) == Min(count + 1, MAX_DENIALS)

\* StateManager.add_denial
add_denial(count) == count + 1

denials_exceededAbove(count) == count > MAX_DENIALS

denials_exceededExactly(count) == count = MAX_DENIALS

\* StateManager.denials_exceeded
denials_exceeded(count) == count >= MAX_DENIALS

\* StateManager.add_tool_event
add_tool_event(events, name, args, status) ==
    Append(events, [name |-> name, args |-> args, status |-> status])

\* StateManager.set_hypothesis(value): value or ""
set_hypothesis(value) == IF value = NoText THEN <<>> ELSE value

set_summaryOverwrites(current, value) == IF value = NoText THEN <<>> ELSE value

\* StateManager.set_summary(summary): summary or self.summary
set_summary(current, value) ==
    IF value = NoText \/ value = <<>> THEN current ELSE value

add_skillLastWins(list, name, path, truncated) ==
    SelectSeq(list, LAMBDA k : k.name /= name)
        \o <<[name |-> name, path |-> path, truncated |-> truncated]>>

\* StateManager.add_skill(name, path, truncated)
add_skill(list, name, path, truncated) ==
    IF \E i \in DOMAIN list : list[i].name = name THEN list
    ELSE Append(list, [name |-> name, path |-> path, truncated |-> truncated])

\* self.tool_events[-5:]
RecentEvents(events) == SubSeq(events, Max(1, Len(events) - 4), Len(events))

block_partsAllEvents(hyp, events, denials, summ) ==
    (IF hyp /= <<>> THEN <<[section |-> "Working hypothesis: ", body |-> hyp]>> ELSE <<>>)
    \o (IF events /= <<>>
        THEN <<[section |-> "Recent tool calls:", body |-> events]>> ELSE <<>>)
    \o (IF denials /= 0
        THEN <<[section |-> "Command denials: ", body |-> <<denials, MAX_DENIALS>>]>>
        ELSE <<>>)
    \o (IF summ /= <<>> THEN <<[section |-> "Session summary: ", body |-> summ]>> ELSE <<>>)

\* the parts list of context_block (lines 139-152): one entry per section that
\* has something to say
block_parts(hyp, events, denials, summ) ==
    (IF hyp /= <<>> THEN <<[section |-> "Working hypothesis: ", body |-> hyp]>> ELSE <<>>)
    \o (IF events /= <<>>
        THEN <<[section |-> "Recent tool calls:", body |-> RecentEvents(events)]>> ELSE <<>>)
    \o (IF denials /= 0
        THEN <<[section |-> "Command denials: ", body |-> <<denials, MAX_DENIALS>>]>>
        ELSE <<>>)
    \o (IF summ /= <<>> THEN <<[section |-> "Session summary: ", body |-> summ]>> ELSE <<>>)

\* what context_block returns (lines 154-157): nothing, or the heading and the parts
render_block(hyp, events, denials, summ) ==
    LET parts == block_parts(hyp, events, denials, summ)
    IN IF parts = <<>> THEN [heading |-> <<>>, parts |-> <<>>]
       ELSE [heading |-> <<"## Agent State">>, parts |-> parts]

\* StateManager.context_block as a text: the heading stands for the whole block
context_block == render_block(hypothesis, tool_events, denial_count, st_summary).heading

\* StateManager.add_context_info
ContextInfo(cc, tc, summarized, error) ==
    IF error = NoText \/ error = <<>>
    THEN [chat_count |-> cc, token_count |-> tc, summarized |-> summarized]
    ELSE [chat_count |-> cc, token_count |-> tc, summarized |-> summarized, error |-> error]

(***************************************************************************)
(* ToolSuite.execute and the tool handlers.                                *)
(***************************************************************************)
ToolNames == {"read_file", "list_files", "grep", "run_command"}

\* a path argument: given or not, absolute or relative, and its components
PathArg(abs, parts) == [given |-> TRUE, abs |-> abs, parts |-> parts]
NoPath == [given |-> FALSE, abs |-> FALSE, parts |-> <<>>]
Dot == PathArg(FALSE, <<".">>)

\* the resolved project root, the working directory, and the target of the
\* symbolic link named "link" that lies in the project root
ROOT == <<"project">>
CWD == <<"work">>
LINK_TARGET == <<"etc">>

\* an argument map: the command (NoText when absent), the path and the pattern
\* (absent, a valid or an invalid regular expression)
EmptyArgs == [command |-> NoText, path |-> NoPath, pattern |-> "absent"]

\* ToolSuite._parse_arguments: raw arguments are a map, an empty value, JSON text
\* of an object, JSON text of something else, or malformed JSON text
parse_arguments(raw) ==
    CASE raw.form = "map" -> [raised |-> FALSE, isdict |-> TRUE, args |-> raw.map]
      [] raw.form = "empty" -> [raised |-> FALSE, isdict |-> TRUE, args |-> EmptyArgs]
      [] raw.form = "json" -> [raised |-> FALSE, isdict |-> TRUE, args |-> raw.map]
      [] raw.form = "json_list" -> [raised |-> FALSE, isdict |-> FALSE, args |-> EmptyArgs]
      [] raw.form = "badjson" -> [raised |-> TRUE, isdict |-> FALSE, args |-> EmptyArgs]

\* (base / path).resolve() from the directory cur on: "." stays, ".." goes to
\* the parent (the parent of "/" is "/"), "link" in the project root is followed
RECURSIVE Resolved(_, _)
Resolved(cur, parts) ==
    IF parts = <<>> THEN cur
    ELSE LET c == Head(parts)
         IN Resolved(CASE c = "." -> cur
                       [] c = ".." -> SubSeq(cur, 1, Len(cur) - 1)
                       [] c = "link" /\ cur = ROOT -> LINK_TARGET
                       [] OTHER -> Append(cur, c),
                     Tail(parts))

\* self.root_dir in resolved.parents or resolved == self.root_dir
Within(dir, resolved) ==
    /\ Len(dir) <= Len(resolved)
    /\ SubSeq(resolved, 1, Len(dir)) = dir

ResolvedWithoutContainment(path, root) ==
    LET base == IF root THEN ROOT ELSE CWD
        resolved == Resolved(IF path.abs THEN <<>> ELSE base, path.parts)
    IN IF ~path.given \/ (~path.abs /\ path.parts = <<>>)
       THEN [kind |-> "error", text |-> <<"Path is required">>, resolved |-> <<>>]
       ELSE [kind |-> "ok", text |-> <<>>, resolved |-> resolved]

\* ToolSuite._resolve_path
resolve_path(path, root) ==
    LET base == IF root THEN ROOT ELSE CWD
        resolved == Resolved(IF path.abs THEN <<>> ELSE base, path.parts)
    IN IF ~path.given \/ (~path.abs /\ path.parts = <<>>)
       THEN [kind |-> "error", text |-> <<"Path is required">>, resolved |-> <<>>]
       ELSE IF root /\ ~Within(ROOT, resolved)
       THEN [kind |-> "error", text |-> <<"Access outside project root denied">>,
             resolved |-> resolved]
       ELSE [kind |-> "ok", text |-> <<>>, resolved |-> resolved]

\* ToolSuite._tool_read_file; env says whether the read succeeds
tool_read_file(args, root, env) ==
    LET r == resolve_path(args.path, root)
    IN IF r.kind /= "ok" THEN [kind |-> r.kind, text |-> r.text]
       ELSE IF env = "fails" THEN [kind |-> "error", text |-> <<"Failed to read">>]
       ELSE [kind |-> "ok", text |-> <<"file text">>]

\* ToolSuite._tool_list_files; the path defaults to "."
tool_list_files(args, root, env) ==
    LET r == resolve_path(IF args.path.given /\ (args.path.abs \/ args.path.parts /= <<>>)
                          THEN args.path ELSE Dot, root)
    IN IF r.kind /= "ok" THEN [kind |-> r.kind, text |-> r.text]
       ELSE IF env = "fails" THEN [kind |-> "error", text |-> <<"Failed to list">>]
       ELSE [kind |-> "ok", text |-> <<"entries">>]

\* ToolSuite._tool_grep; the path defaults to "."
tool_grep(args, root, env) ==
    LET r == resolve_path(IF args.path.given /\ (args.path.abs \/ args.path.parts /= <<>>)
                          THEN args.path ELSE Dot, root)
    IN IF args.pattern = "absent" THEN [kind |-> "error", text |-> <<"Pattern is required">>]
       ELSE IF r.kind /= "ok" THEN [kind |-> r.kind, text |-> r.text]
       ELSE IF args.pattern = "invalid"
       THEN [kind |-> "error", text |-> <<"Invalid regex pattern">>]
       ELSE IF env = "fails" THEN [kind |-> "ok", text |-> <<"No matches found.">>]
       ELSE [kind |-> "ok", text |-> <<"matches">>]

\* ToolSuite._tool_run_command; env says whether the subprocess ends in time
tool_run_command(args, allow, env) ==
    LET command == Strip(IF args.command = NoText THEN <<>> ELSE args.command)
        v == validate_command(command, allow)
    IN IF command = <<>> THEN [kind |-> "error", text |-> <<"No command provided">>]
       ELSE IF v.kind /= "pass" THEN v
       ELSE IF env = "fails"
       THEN [kind |-> "error", text |-> <<"Command timed out after 45 seconds">>]
       ELSE [kind |-> "ok", text |-> <<"stdout">>]

\* tool["handler"](args): ok with the output, a ToolDeniedError, a ToolError, or
\* another exception (args.get on something that is not a map)
Handler(name, parsed, allow, root, env) ==
    IF ~parsed.isdict THEN [kind |-> "escape", text |-> <<"AttributeError">>]
    ELSE CASE name = "read_file" -> tool_read_file(parsed.args, root, env)
           [] name = "list_files" -> tool_list_files(parsed.args, root, env)
           [] name = "grep" -> tool_grep(parsed.args, root, env)
           [] name = "run_command" -> tool_run_command(parsed.args, allow, env)

\* the value execute returns, with the state tracker's fields after the call;
\* raised says that an exception left execute instead
Outcome(raised, status, output, denied_limit, count, events, notified) ==
    [raised |-> raised, status |-> status, output |-> output,
     denied_limit |-> denied_limit, denial_count |-> count, tool_events |-> events,
     notified |-> notified]

executeNotifyFirst(name, raw, has_state, has_notifier, env, count, events, allow, root) ==
    IF name \notin ToolNames
    THEN Outcome(FALSE, "error", <<"Unknown tool ", name>>, FALSE, count, events,
                 has_notifier)
    ELSE
    LET parsed == parse_arguments(raw)
        h == Handler(name, parsed, allow, root, env)
        newcount == add_denial(count)
        limit == denials_exceeded(newcount)
    IN IF parsed.raised
       THEN Outcome(TRUE, "ToolError", <<"Invalid arguments JSON">>, FALSE, count, events, FALSE)
       ELSE CASE h.kind = "ok" ->
                   Outcome(FALSE, "ok", h.text, FALSE, count,
                           IF has_state THEN add_tool_event(events, name, parsed.args, <<"ok">>)
                           ELSE events,
                           has_notifier)
              [] h.kind = "denied" ->
                   IF has_state
                   THEN Outcome(FALSE, "denied",
                                <<"Tool denied: ">> \o h.text
                                    \o (IF limit THEN <<" - denial limit reached">> ELSE <<>>),
                                limit, newcount,
                                add_tool_event(events, name, parsed.args,
                                    IF limit THEN <<"denied (limit reached)">>
                                    ELSE <<"denied">>),
                                has_notifier)
                   ELSE Outcome(FALSE, "denied", <<"Tool denied: ">> \o h.text, FALSE,
                                count, events, has_notifier)
              [] h.kind = "error" ->
                   Outcome(FALSE, "error", <<"Tool error: ">> \o h.text, FALSE, count,
                           IF has_state
                           THEN add_tool_event(events, name, parsed.args, <<"error: ">> \o h.text)
                           ELSE events,
                           has_notifier)
              [] h.kind = "escape" ->
                   Outcome(TRUE, h.text[1], <<>>, FALSE, count, events, has_notifier)

\* ToolSuite.execute(name, arguments, state_manager, notifier) on a state tracker
\* holding count denials and the events log
execute(name, raw, has_state, has_notifier, env, count, events, allow, root) ==
    IF name \notin ToolNames
    THEN Outcome(FALSE, "error", <<"Unknown tool ", name>>, FALSE, count, events, FALSE)
    ELSE
    LET parsed == parse_arguments(raw)
        h == Handler(name, parsed, allow, root, env)
        newcount == add_denial(count)
        limit == denials_exceeded(newcount)
    IN IF parsed.raised
       THEN Outcome(TRUE, "ToolError", <<"Invalid arguments JSON">>, FALSE, count, events, FALSE)
       ELSE CASE h.kind = "ok" ->
                   Outcome(FALSE, "ok", h.text, FALSE, count,
                           IF has_state THEN add_tool_event(events, name, parsed.args, <<"ok">>)
                           ELSE events,
                           has_notifier)
              [] h.kind = "denied" ->
                   IF has_state
                   THEN Outcome(FALSE, "denied",
                                <<"Tool denied: ">> \o h.text
                                    \o (IF limit THEN <<" - denial limit reached">> ELSE <<>>),
                                limit, newcount,
                                add_tool_event(events, name, parsed.args,
                                    IF limit THEN <<"denied (limit reached)">>
                                    ELSE <<"denied">>),
                                has_notifier)
                   ELSE Outcome(FALSE, "denied", <<"Tool denied: ">> \o h.text, FALSE,
                                count, events, has_notifier)
              [] h.kind = "error" ->
                   Outcome(FALSE, "error", <<"Tool error: ">> \o h.text, FALSE, count,
                           IF has_state
                           THEN add_tool_event(events, name, parsed.args, <<"error: ">> \o h.text)
                           ELSE events,
                           has_notifier)
              [] h.kind = "escape" ->
                   Outcome(TRUE, h.text[1], <<>>, FALSE, count, events, has_notifier)

(***************************************************************************)
(* Operations of the context engine.                                       *)
(***************************************************************************)
\* the message shapes add_message is called with
AddInputs ==
    {[role |-> "system", content |-> SYSTEM_PROMPT, tool_calls |-> <<>>, tool_call_id |-> NONE],
     [role |-> "user", content |-> <<"hi">>, tool_calls |-> <<>>, tool_call_id |-> NONE],
     [role |-> NONE, content |-> <<"MED">>, tool_calls |-> <<>>, tool_call_id |-> NONE],
     [role |-> "assistant", content |-> <<"hi">>, tool_calls |-> <<>>, tool_call_id |-> NONE],
     [role |-> "assistant", content |-> NoText,
      tool_calls |-> <<[id |-> "t1", name |-> "run_command", input |-> "ls"]>>,
      tool_call_id |-> NONE],
     [role |-> "tool", content |-> <<"MED">>, tool_calls |-> <<>>, tool_call_id |-> "t1"],
     [role |-> "bogus", content |-> <<"hi">>, tool_calls |-> <<>>, tool_call_id |-> NONE]}

\* the log after add_message(in)
Added(msgs, in) ==
    Append(msgs, Message(in.role, in.content, in.tool_calls, in.tool_call_id))

\* ContextManager.add_message
AddMessage(in) ==
    /\ Len(messages) < MaxLog
    /\ IF RoleRaises(in.role)
       THEN /\ UNCHANGED messages
            /\ last' = [op |-> "add", raised |-> TRUE, in |-> in,
                        onlyAdds |-> last.onlyAdds, adds |-> last.adds]
       ELSE /\ messages' = Added(messages, in)
            /\ last' = [op |-> "add", raised |-> FALSE, in |-> in,
                        returned |-> Message(in.role, in.content, in.tool_calls,
                                             in.tool_call_id),
                        onlyAdds |-> last.onlyAdds,
                        adds |-> IF last.onlyAdds
                                 THEN Append(last.adds, Message(in.role, in.content,
                                                   in.tool_calls, in.tool_call_id))
                                 ELSE <<>>]
    /\ UNCHANGED <<summary, max_turns, keep_recent, token_limit>>
    /\ UNCHANGED stVars
    /\ UNCHANGED <<toolVars, sessVars>>

\* what provider.summarize returns: (text, error)
SummarizerAnswers ==
    {[text |-> <<"s1">>, error |-> NoText],
     [text |-> <<"s2">>, error |-> NoText],
     [text |-> <<>>, error |-> <<"timeout">>],
     [text |-> <<>>, error |-> NoText]}

\* what maybe_summarize hands to the summarizer (lines 213-217); the action
\* records whether it starts with the stored log, and what follows the log
SummarizerInput(msgs, state_block) ==
    IF state_block /= <<>>
    THEN Append(msgs, Message("system", state_block, <<>>, NONE))
    ELSE msgs

StoredAfterAppendShared(msgs, given) == given

\* the stored log once the state block was appended to the summarizer's list:
\* get_context (104) returned a copy, so the append at 216 leaves self.messages
\* as it was
StoredAfterAppend(msgs, given) == msgs

\* ContextManager.maybe_summarize(provider, state_manager)
MaybeSummarize(has_provider, has_state, answer) ==
    LET cc == chat_count(messages)
        tc == token_count(messages)
        state_block == IF has_state THEN context_block ELSE <<>>
        given == SummarizerInput(messages, state_block)
        stored == StoredAfterAppend(messages, given)
        out == ApplySummary(stored, summary, answer.text, keep_recent)
    IN IF ~has_provider
       THEN /\ UNCHANGED <<messages, summary, context_info>>
            /\ last' = [op |-> "compact", called |-> FALSE, onlyAdds |-> last.onlyAdds,
                        adds |-> last.adds]
       ELSE IF ~needs_compaction(messages, max_turns, token_limit)
       THEN /\ UNCHANGED <<messages, summary>>
            /\ context_info' = IF has_state THEN ContextInfo(cc, tc, FALSE, NoText)
                               ELSE context_info
            /\ last' = [op |-> "compact", called |-> FALSE, onlyAdds |-> last.onlyAdds,
                        adds |-> last.adds]
       ELSE /\ messages' = out.messages
            /\ summary' = out.summary
            /\ context_info' = IF has_state
                               THEN ContextInfo(cc, tc, answer.text /= <<>>, answer.error)
                               ELSE context_info
            /\ last' = [op |-> "compact", called |-> TRUE,
                        onlyAdds |-> last.onlyAdds /\ answer.text = <<>>,
                        adds |-> IF answer.text = <<>> THEN last.adds ELSE <<>>,
                        answer |-> answer, prev |-> summary,
                        block |-> state_block,
                        sees_log |-> /\ Len(given) >= Len(messages)
                                     /\ SubSeq(given, 1, Len(messages)) = messages,
                        extra |-> SubSeq(given, Len(messages) + 1, Len(given))]

Compact(has_provider, has_state, answer) ==
    /\ MaybeSummarize(has_provider, has_state, answer)
    /\ UNCHANGED <<max_turns, keep_recent, token_limit>>
    /\ UNCHANGED <<hypothesis, tool_events, denial_count, st_summary, skills>>
    /\ UNCHANGED <<toolVars, sessVars>>

\* ContextManager.reset
Reset ==
    /\ messages' = <<>>
    /\ summary' = <<>>
    /\ last' = [op |-> "reset", onlyAdds |-> TRUE, adds |-> <<>>]
    /\ UNCHANGED <<max_turns, keep_recent, token_limit>>
    /\ UNCHANGED stVars
    /\ UNCHANGED <<toolVars, sessVars>>

\* ALLOWED_COMMANDS as shipped (empty) and ToolSuite() without a root
ToolsInit ==
    /\ ALLOWED_COMMANDS = {}
    /\ root_dir = FALSE
    /\ provider = "anthropic"

NoTurn == [n |-> 0, denials0 |-> 0, backend |-> 0, summaries |-> 0, calls |-> 0]

\* no session is running
NoSession ==
    /\ pc = "idle"
    /\ pending = <<>>
    /\ loops = 0
    /\ turn = NoTurn

StateInit ==
    /\ hypothesis = <<>>
    /\ tool_events = <<>>
    /\ denial_count = 0
    /\ st_summary = <<>>
    /\ context_info = [chat_count |-> 0, token_count |-> 0, summarized |-> FALSE]
    /\ skills = <<>>

\* the constructor arguments (max_turns, token_limit, keep_recent) the context
\* specification starts from
CtxArgs == {<<2, 1, 1>>, <<3, 1, 2>>}

InitCtx ==
    /\ \E a \in CtxArgs :
          LET c == Construct(a[1], a[2], a[3])
          IN /\ ~c.raised
             /\ max_turns = c.max_turns
             /\ keep_recent = c.keep_recent
             /\ token_limit = c.token_limit
    /\ messages = <<>>
    /\ summary = <<>>
    /\ StateInit
    /\ ToolsInit
    /\ NoSession
    /\ last = [op |-> "init", onlyAdds |-> TRUE, adds |-> <<>>]

NextCtx ==
    \/ \E in \in AddInputs : AddMessage(in)
    \/ \E p \in BOOLEAN, a \in SummarizerAnswers : Compact(p, FALSE, a)
    \/ Reset

SpecCtx == InitCtx /\ [][NextCtx]_vars

(***************************************************************************)
(* Properties of the context engine.                                       *)
(***************************************************************************)
\* the step is a maybe_summarize whose summarizer returned non-empty text
CompactOkStep == last'.op = "compact" /\ last'.called /\ last'.answer.text /= <<>>

\* the step is a maybe_summarize whose summarizer returned empty text
CompactEmptyStep == last'.op = "compact" /\ last'.called /\ last'.answer.text = <<>>

CompactOkState == last.op = "compact" /\ last.called /\ last.answer.text /= <<>>

\* C5: immediately after a successful compact needs_compaction() is false,
\* whichever trigger caused it and whatever the retained messages hold.
C5_NoCompactionNeededAfterCompact ==
    [][CompactOkStep => ~needs_compaction(messages', max_turns', token_limit')]_vars

\* C6 as stated: after a successful compact the log length is
\* (original non-summary system messages) + 1 + keep_recent.
C6_LengthIsSystemPlusOnePlusKeep ==
    [][CompactOkStep =>
          Len(messages') = Len(OriginalSystem(messages)) + 1 + keep_recent]_vars

Turns(msgs) == Cardinality({i \in DOMAIN msgs : IsTurn(msgs[i])})

IsSuffix(t, s) == Len(t) <= Len(s) /\ t = SubSeq(s, Len(s) - Len(t) + 1, Len(s))

\* C6 as amended: after a successful compact the log is the original non-summary
\* system messages, then one summary marker message, then the shortest suffix of
\* the non-system messages that holds keep_recent chat turns (all of them when
\* there are fewer); when the log held at least keep_recent chat turns its length
\* is system + 1 + keep_recent if that suffix holds no tool-call or tool-result
\* message and larger if it does.
C6_LengthAfterCompact ==
    [][CompactOkStep =>
          LET nsys == Len(OriginalSystem(messages))
              ns == NonSystem(messages)
              kept == SubSeq(messages', nsys + 2, Len(messages'))
          IN /\ Len(messages') >= nsys + 1
             /\ SubSeq(messages', 1, nsys) = OriginalSystem(messages)
             /\ messages'[nsys + 1].role = "system"
             /\ StartsWithMarker(messages'[nsys + 1].content)
             /\ IsSuffix(kept, ns)
             /\ Turns(kept) = Min(keep_recent, Turns(ns))
             /\ Turns(ns) >= keep_recent => IsTurn(kept[1])
             /\ Turns(ns) < keep_recent => kept = ns
             /\ (Turns(ns) >= keep_recent /\ \A i \in DOMAIN kept : IsTurn(kept[i]))
                   => Len(messages') = nsys + 1 + keep_recent
             /\ (Turns(ns) >= keep_recent /\ \E i \in DOMAIN kept : ~IsTurn(kept[i]))
                   => Len(messages') > nsys + 1 + keep_recent]_vars

\* a successful compact that kept a tool result riding along with a chat turn
C6_Witness ==
    /\ CompactOkState
    /\ \E i \in DOMAIN messages : messages[i].role = "tool"
    /\ Len(NonSystem(messages)) > keep_recent

\* C7: after any sequence of add operations, slice(FULL) is exactly the appended
\* messages in append order.
C7_FullSliceIsAppended ==
    last.onlyAdds => context_slice(messages, summary, MODE_FULL, MAX_TURNS) = last.adds

C7_Witness ==
    /\ last.onlyAdds
    /\ Len(last.adds) >= 3
    /\ last.adds[1].role = "user"
    /\ last.adds[2].role = "assistant"
    /\ last.adds[3].role = "tool"

\* C8: when the summarizer returns empty text, compact leaves the message log and
\* the stored summary exactly as they were.
C8_EmptySummaryLeavesLog ==
    [][CompactEmptyStep => messages' = messages /\ summary' = summary]_vars

C8_Witness ==
    /\ last.op = "compact" /\ last.called
    /\ last.answer.text = <<>> /\ last.answer.error /= NoText
    /\ Len(messages) >= 3
    /\ summary /= <<>>

Qualifying(m) == m.role \in {"user", "assistant"} /\ m.tool_calls = <<>>

Appended(P(_)) == Cardinality({i \in DOMAIN last.adds : P(last.adds[i])})

\* C9: with max_turns = N and short messages, needs_compaction() is false after N
\* qualifying chat turns were appended and true after N + 1; system messages, tool
\* messages and assistant messages carrying tool_calls do not count.
C9_TurnTrigger ==
    (last.onlyAdds /\ token_count(messages) < token_limit) =>
        /\ Appended(Qualifying) <= max_turns
              => ~needs_compaction(messages, max_turns, token_limit)
        /\ Appended(Qualifying) >= max_turns + 1
              => needs_compaction(messages, max_turns, token_limit)

C9_Witness ==
    /\ last.onlyAdds /\ token_count(messages) < token_limit
    /\ Appended(Qualifying) = max_turns + 1
    /\ Appended(LAMBDA m : m.role = "assistant" /\ m.tool_calls /= <<>>) >= 1
    /\ needs_compaction(messages, max_turns, token_limit)

(***************************************************************************)
(* Construction of a context engine.                                       *)
(***************************************************************************)
CtorArgs == (0 - 2) .. MaxArg

InitCtor ==
    /\ max_turns = 0
    /\ keep_recent = 0
    /\ token_limit = 0
    /\ messages = <<>>
    /\ summary = <<>>
    /\ StateInit
    /\ ToolsInit
    /\ NoSession
    /\ last = [op |-> "none"]

\* ContextManager(max_turns=mt, token_limit=tl, keep_recent=kr)
NewContextManager(mt, tl, kr) ==
    LET c == Construct(mt, tl, kr)
    IN /\ last.op = "none"
       /\ last' = [op |-> "construct", raised |-> c.raised,
                   mt |-> mt, tl |-> tl, kr |-> kr]
       /\ IF c.raised
          THEN UNCHANGED <<max_turns, keep_recent, token_limit>>
          ELSE /\ max_turns' = c.max_turns
               /\ keep_recent' = c.keep_recent
               /\ token_limit' = c.token_limit
       /\ messages' = <<>>
       /\ summary' = <<>>
       /\ UNCHANGED stVars
       /\ UNCHANGED <<toolVars, sessVars>>

NextCtor == \E mt \in CtorArgs, kr \in CtorArgs, tl \in {0, 1} : NewContextManager(mt, tl, kr)

SpecCtor == InitCtor /\ [][NextCtor]_vars

\* C10 as stated: construction fails for every pair of integers with
\* keep_recent >= max_turns, zero and negative values included.
C10_RaisesWheneverKeepAtLeastMax ==
    (last.op = "construct" /\ last.kr >= last.mt) => last.raised

Effective(x, default) == IF x >= 1 THEN x ELSE default

\* C10 as amended: construction fails exactly when the effective keep_recent is
\* >= the effective max_turns, where an argument below 1 is replaced by its
\* default (max_turns 20, keep_recent 5); for arguments >= 1 that is
\* keep_recent >= max_turns.
C10_RaisesOnEffectiveValues ==
    last.op = "construct" =>
        /\ last.raised <=> Effective(last.kr, 5) >= Effective(last.mt, 20)
        /\ (last.kr >= 1 /\ last.mt >= 1) => (last.raised <=> last.kr >= last.mt)
        /\ ~last.raised => /\ max_turns = Effective(last.mt, 20)
                           /\ keep_recent = Effective(last.kr, 5)
                           /\ keep_recent < max_turns

C10_Witness == last.op = "construct" /\ last.raised /\ last.mt = 3 /\ last.kr = 0

(***************************************************************************)
(* The tool sandbox on its own: any sequence of execute calls on one       *)
(* ToolSuite and one StateManager.                                         *)
(***************************************************************************)
Cmd(command) == [command |-> command, path |-> NoPath, pattern |-> "absent"]
Path(path) == [command |-> NoText, path |-> path, pattern |-> "absent"]
AsMap(map) == [form |-> "map", map |-> map]
AsText(form) == [form |-> form, map |-> EmptyArgs]

\* the calls tried: <<name, raw arguments, env>>, where env says whether the
\* subprocess or the file access the call leads to succeeds
ToolCalls ==
    { <<"run_command", AsMap(Cmd(<<"ls">>)), "ok">>,
      <<"run_command", AsMap(Cmd(<<"ls">>)), "fails">>,
      <<"run_command", AsMap(Cmd(<<"rm">>)), "ok">>,
      <<"run_command", AsMap(Cmd(<<"ls", ";", SPACE, "rm">>)), "ok">>,
      <<"run_command", AsText("empty"), "ok">>,
      <<"run_command", AsText("badjson"), "ok">>,
      <<"run_command", AsText("json_list"), "ok">>,
      <<"read_file", AsMap(Path(PathArg(FALSE, <<"..", "etc">>))), "ok">>,
      <<"bogus", AsMap(EmptyArgs), "ok">> }

\* the allowlist as shipped, and a configured one
Allowlists == { {}, {<<"ls">>, <<"grep">>} }

InitTools ==
    /\ messages = <<>>
    /\ summary = <<>>
    /\ max_turns = MAX_TURNS
    /\ keep_recent = MESSAGES_AFTER_SUMMARIZATION
    /\ token_limit = TOKEN_LIMIT
    /\ StateInit
    /\ ALLOWED_COMMANDS \in Allowlists
    /\ root_dir \in BOOLEAN
    /\ provider = "anthropic"
    /\ NoSession
    /\ last = [op |-> "init"]

\* one call of ToolSuite.execute, with a notifier
Execute(name, raw, has_state, env) ==
    \E res \in {execute(name, raw, has_state, TRUE, env,
                         denial_count, tool_events, ALLOWED_COMMANDS, root_dir)} :
       /\ Len(tool_events) < MaxEvents
       /\ denial_count' = res.denial_count
       /\ tool_events' = res.tool_events
       /\ last' = [op |-> "execute", name |-> name, raw |-> raw,
                   has_state |-> has_state, res |-> res]
       /\ UNCHANGED ctxVars
       /\ UNCHANGED <<hypothesis, st_summary, context_info, skills>>
       /\ UNCHANGED <<toolVars, sessVars>>

NextTools ==
    \E call \in ToolCalls, has_state \in BOOLEAN :
        Execute(call[1], call[2], has_state, call[3])

SpecTools == InitTools /\ [][NextTools]_vars

\* the command of a run_command call reaches _validate_command and is rejected
\* there, by the operator check or by the allowlist
FailsValidator(raw) ==
    LET parsed == parse_arguments(raw)
        command == Strip(IF parsed.args.command = NoText THEN <<>> ELSE parsed.args.command)
    IN /\ ~parsed.raised
       /\ parsed.isdict
       /\ command /= <<>>
       /\ validate_command(command, ALLOWED_COMMANDS).kind /= "pass"

\* C1: every run_command call whose command fails the command safety
\* validator, a forbidden chaining or substitution operator included, is
\* reported by execute with status 'denied' and adds exactly one to the state
\* tracker's denial counter (never status 'error').
C1_ValidatorFailureIsDenied ==
    [][(/\ last'.op = "execute"
        /\ last'.name = "run_command"
        /\ last'.has_state
        /\ FailsValidator(last'.raw))
       => (/\ ~last'.res.raised
           /\ last'.res.status = "denied"
           /\ denial_count' = denial_count + 1)]_vars

\* C2: execute never lets an exception escape: for every tool name and every
\* raw argument value it returns a result, and malformed JSON arguments for a
\* known tool give a returned result with status 'error'.
C2_ExecuteNeverRaises ==
    last.op = "execute"
        => (/\ ~last.res.raised
            /\ (last.raw.form = "badjson" /\ last.name \in ToolNames
                    => last.res.status = "error"))

(***************************************************************************)
(* The session: the main loop of cli.py around AIProvider.generate with a  *)
(* tool suite, an API key and a state tracker.  The backend is the         *)
(* environment: each call's response is chosen freely.                     *)
(***************************************************************************)
MAX_TOOL_LOOPS == 10

\* backend calls in a session: no user turn starts once they are used up
MaxBackendCalls == 3

DENIAL_LIMIT_REPLY == <<"Command denial limit reached - stopping tool execution.">>
LOOP_LIMIT_REPLY == <<provider, ": tool loop limit reached">>
FAILED_REPLY == <<provider, " request failed: ", "exc">>
NO_ACTION_REPLY == <<provider, ": no action or response">>
CANCELLED == <<"(cancelled)">>

\* a tool call of a backend response: its id, the tool's name and the arguments
\* (a map in Anthropic's tool_use block, the text of function.arguments in
\* OpenAI's entry)
Call(id, name, input) == [id |-> id, name |-> name, input |-> input]

Providers == {"anthropic", "openai"}

\* AnthropicProvider._handle_tool_calls 353-360: the entry built from a
\* tool_use block
tool_use(call) ==
    [id |-> call.id, type |-> "tool_use", name |-> call.name, input |-> call.input]

\* the entry of message["tool_calls"] in an OpenAI response
function_call(call) ==
    [id |-> call.id, type |-> "function",
     function |-> [name |-> call.name, arguments |-> call.input]]

\* the tool_calls list handed to add_message: the entries built by the
\* Anthropic adapter, the response's own list in the OpenAI adapter (507, 516)
stored_tool_calls(batch) ==
    [i \in 1 .. Len(batch) |->
        IF provider = "anthropic" THEN tool_use(batch[i]) ELSE function_call(batch[i])]
Ls(id) == Call(id, "run_command", AsMap(Cmd(<<"ls">>)))
Rm(id) == Call(id, "run_command", AsMap(Cmd(<<"rm">>)))
Bad(id) == Call(id, "run_command", AsText("badjson"))

\* the tool-call lists a backend response may carry
Batches ==
    { <<Ls("c1")>>, <<Rm("c1")>>, <<Rm("c1"), Rm("c2")>>, <<Rm("c1"), Ls("c2")>>,
      <<Bad("c1")>> }

\* the final replies a backend may give: the text left once the hypothesis tag
\* is taken out, and the hypothesis
Finals ==
    { [text |-> <<"hi">>, hypothesis |-> <<"h1">>],
      [text |-> <<>>, hypothesis |-> <<>>] }

\* what the summarizer returns in the session
SessionAnswers ==
    { [text |-> <<"s1">>, error |-> NoText],
      [text |-> <<>>, error |-> <<"timeout">>] }

\* the configuration (max_turns, token_limit, keep_recent) of the session
SessArgs == {<<2, 1, 1>>}

Step(op) == [op |-> op, onlyAdds |-> FALSE, adds |-> <<>>]

CONTEXT_WINDOW == 20

\* _build_payload: the slice the request to the backend is built from
payload_messages ==
    context_slice(messages, summary, MODE_SUMMARY_PLUS_RECENT, CONTEXT_WINDOW)

\* a step that sent a request to the backend
Sent(op) == [op |-> op, onlyAdds |-> FALSE, adds |-> <<>>, payload |-> payload_messages]

InitSession ==
    /\ \E a \in SessArgs :
          LET c == Construct(a[1], a[2], a[3])
          IN /\ ~c.raised
             /\ max_turns = c.max_turns
             /\ keep_recent = c.keep_recent
             /\ token_limit = c.token_limit
    /\ messages = Added(<<>>, [role |-> "system", content |-> SYSTEM_PROMPT,
                               tool_calls |-> <<>>, tool_call_id |-> NONE])
    /\ summary = <<>>
    /\ StateInit
    /\ ALLOWED_COMMANDS \in Allowlists
    /\ root_dir = FALSE
    /\ provider = "anthropic"
    /\ pc = "prompt"
    /\ pending = <<>>
    /\ loops = 0
    /\ turn = NoTurn
    /\ last = Step("init")

Reply(msgs, text) == Append(msgs, Message("assistant", text, <<>>, NONE))

\* cli.py 109-110: the user's input is appended to the log
UserInputIf(within) ==
    /\ pc = "prompt"
    /\ within
    /\ messages' = Append(messages, Message("user", <<"hi">>, <<>>, NONE))
    /\ pc' = "summarize"
    /\ turn' = [n |-> turn.n + 1, denials0 |-> denial_count, backend |-> 0,
                summaries |-> 0, calls |-> turn.calls]
    /\ last' = Step("user")
    /\ UNCHANGED <<summary, max_turns, keep_recent, token_limit, pending, loops>>
    /\ UNCHANGED <<stVars, toolVars>>

UserInput == UserInputIf(turn.calls < MaxBackendCalls)

\* cli.py 103-106: exit, quit or end of input
Quit ==
    /\ pc = "prompt"
    /\ pc' = "exited"
    /\ last' = Step("quit")
    /\ UNCHANGED <<ctxVars, stVars, toolVars, pending, loops, turn>>

SummarizeStepInLoop(answer) ==
    /\ pc \in {"summarize", "generate"}
    /\ MaybeSummarize(TRUE, TRUE, answer)
    /\ pc' = "generate"
    /\ loops' = IF pc = "summarize" THEN 0 ELSE loops
    /\ turn' = [turn EXCEPT !.summaries =
                   @ + (IF needs_compaction(messages, max_turns, token_limit)
                        THEN 1 ELSE 0)]
    /\ UNCHANGED <<max_turns, keep_recent, token_limit, pending>>
    /\ UNCHANGED <<hypothesis, tool_events, denial_count, st_summary, skills>>
    /\ UNCHANGED toolVars

\* cli.py 113: maybe_summarize(provider, state_manager), then generate starts
SummarizeStep(answer) ==
    /\ pc = "summarize"
    /\ MaybeSummarize(TRUE, TRUE, answer)
    /\ pc' = "generate"
    /\ loops' = 0
    /\ turn' = [turn EXCEPT !.summaries =
                   @ + (IF needs_compaction(messages, max_turns, token_limit)
                        THEN 1 ELSE 0)]
    /\ UNCHANGED <<max_turns, keep_recent, token_limit, pending>>
    /\ UNCHANGED <<hypothesis, tool_events, denial_count, st_summary, skills>>
    /\ UNCHANGED toolVars

BackendFailsRetry(within) ==
    /\ pc = "generate"
    /\ within
    /\ turn' = [turn EXCEPT !.backend = @ + 1, !.calls = @ + 1]
    /\ last' = Sent("failed")
    /\ UNCHANGED <<ctxVars, stVars, toolVars, pc, pending, loops>>

\* generate 127-144: the request fails; cli.py 128 appends the reply
BackendFailsIf(within) ==
    /\ pc = "generate"
    /\ messages' = Reply(messages, FAILED_REPLY)
    /\ pc' = "prompt"
    /\ within
    /\ turn' = [turn EXCEPT !.backend = @ + 1, !.calls = @ + 1]
    /\ last' = Sent("failed")
    /\ UNCHANGED <<summary, max_turns, keep_recent, token_limit, pending, loops>>
    /\ UNCHANGED <<stVars, toolVars>>

BackendFails == BackendFailsIf(turn.calls < MaxBackendCalls)

\* generate 153-169: a response without tool calls; cli.py 128 appends the reply
BackendFinalIf(f, within) ==
    /\ pc = "generate"
    /\ st_summary' = IF summary /= <<>> THEN set_summary(st_summary, summary)
                     ELSE st_summary
    /\ hypothesis' = IF f.hypothesis /= <<>> THEN set_hypothesis(f.hypothesis)
                     ELSE hypothesis
    /\ messages' = Reply(messages, IF f.text = <<>> THEN NO_ACTION_REPLY ELSE f.text)
    /\ pc' = "prompt"
    /\ within
    /\ turn' = [turn EXCEPT !.backend = @ + 1, !.calls = @ + 1]
    /\ last' = Sent("final")
    /\ UNCHANGED <<summary, max_turns, keep_recent, token_limit, pending, loops>>
    /\ UNCHANGED <<tool_events, denial_count, context_info, skills>>
    /\ UNCHANGED toolVars

BackendFinal(f) == BackendFinalIf(f, turn.calls < MaxBackendCalls)

\* _handle_tool_calls up to its loop: a response with tool calls is recorded as
\* one assistant message carrying the calls
BackendToolsIf(batch, within) ==
    /\ pc = "generate"
    /\ messages' = Append(messages,
                           Message("assistant", <<>>, stored_tool_calls(batch), NONE))
    /\ pending' = batch
    /\ pc' = "tools"
    /\ within
    /\ turn' = [turn EXCEPT !.backend = @ + 1, !.calls = @ + 1]
    /\ last' = Sent("tools")
    /\ UNCHANGED <<summary, max_turns, keep_recent, token_limit, loops>>
    /\ UNCHANGED <<stVars, toolVars>>

BackendTools(batch) ==
    BackendToolsIf(batch, /\ Len(tool_events) + Len(batch) <= MaxEvents
                          /\ turn.calls < MaxBackendCalls)

ToolMessageUnkeyed(res, call) == Message("tool", res.output, <<>>, NONE)

\* add_message(Role.TOOL, result["output"], tool_call_id=tool_id)
ToolMessage(res, call) == Message("tool", res.output, <<>>, call.id)

LoopExhaustedLate(done) == done >= MAX_TOOL_LOOPS + 1

\* generate 126: range(MAX_TOOL_LOOPS) has no iteration left after done rounds
LoopExhausted(done) == done >= MAX_TOOL_LOOPS

\* one pass of the loop of _handle_tool_calls: the next call of the response is
\* executed and its result appended as a tool message; after the last call
\* generate 149-152 checks the denial limit and goes on to the next iteration,
\* and line 171 ends the turn when the iterations are used up
ExecTool ==
    /\ pc = "tools"
    /\ pending /= <<>>
    /\ \E res \in {execute(Head(pending).name, Head(pending).input, TRUE, TRUE, "ok",
                           denial_count, tool_events, ALLOWED_COMMANDS, root_dir)} :
          LET call == Head(pending)
              logged == Append(messages, ToolMessage(res, call))
          IN /\ denial_count' = res.denial_count
             /\ tool_events' = res.tool_events
             /\ last' = [op |-> "execute", name |-> call.name, raw |-> call.input,
                         has_state |-> TRUE, res |-> res,
                         onlyAdds |-> FALSE, adds |-> <<>>]
             /\ IF res.raised
                THEN /\ pc' = "crashed"
                     /\ pending' = <<>>
                     /\ UNCHANGED <<messages, loops>>
                ELSE IF Tail(pending) /= <<>>
                THEN /\ messages' = logged
                     /\ pending' = Tail(pending)
                     /\ UNCHANGED <<pc, loops>>
                ELSE IF denials_exceeded(res.denial_count)
                THEN /\ messages' = Reply(logged, DENIAL_LIMIT_REPLY)
                     /\ pending' = <<>>
                     /\ pc' = "prompt"
                     /\ UNCHANGED loops
                ELSE IF LoopExhausted(loops + 1)
                THEN /\ messages' = Reply(logged, LOOP_LIMIT_REPLY)
                     /\ pending' = <<>>
                     /\ pc' = "prompt"
                     /\ loops' = loops + 1
                ELSE /\ messages' = logged
                     /\ pending' = <<>>
                     /\ pc' = "generate"
                     /\ loops' = loops + 1
    /\ UNCHANGED <<summary, max_turns, keep_recent, token_limit, turn>>
    /\ UNCHANGED <<hypothesis, st_summary, context_info, skills>>
    /\ UNCHANGED toolVars

InterruptRetry(within) ==
    /\ pc \in {"generate", "tools"}
    /\ within
    /\ turn' = IF pc = "generate"
               THEN [turn EXCEPT !.backend = @ + 1, !.calls = @ + 1]
               ELSE turn
    /\ pending' = <<>>
    /\ pc' = "generate"
    /\ last' = Step("cancel")
    /\ UNCHANGED <<ctxVars, stVars, toolVars, loops>>

\* cli.py 120-125: KeyboardInterrupt while generate waits for the backend or
\* runs a tool
InterruptIf(within) ==
    /\ pc \in {"generate", "tools"}
    /\ within
    /\ turn' = IF pc = "generate"
               THEN [turn EXCEPT !.backend = @ + 1, !.calls = @ + 1]
               ELSE turn
    /\ messages' = Reply(messages, CANCELLED)
    /\ pending' = <<>>
    /\ pc' = "prompt"
    /\ last' = Step("cancel")
    /\ UNCHANGED <<summary, max_turns, keep_recent, token_limit, loops>>
    /\ UNCHANGED <<stVars, toolVars>>

Interrupt == InterruptIf(pc = "generate" => turn.calls < MaxBackendCalls)

Next ==
    \/ UserInput
    \/ Quit
    \/ \E a \in SessionAnswers : SummarizeStep(a)
    \/ BackendFails
    \/ \E f \in Finals : BackendFinal(f)
    \/ \E batch \in Batches : BackendTools(batch)
    \/ ExecTool
    \/ Interrupt

Spec == InitSession /\ [][Next]_vars

(***************************************************************************)
(* Properties of the session.                                              *)
(***************************************************************************)
\* the step executes one tool call of a backend response
ExecToolStep == pc = "tools" /\ last'.op = "execute"

LastMessage(msgs) == msgs[Len(msgs)]

\* C3: within one turn of the tool-call loop, once the denial counter has
\* reached MAX_DENIALS no further tool call is executed in that turn, the
\* remaining calls of the response in which the cap was reached included, and
\* the turn returns the fixed denial-limit message.
C3_NoToolCallAfterCap ==
    [][(ExecToolStep /\ ~denials_exceeded(turn.denials0))
       => (/\ ~denials_exceeded(denial_count)
           /\ (denials_exceeded(denial_count') /\ pc' = "prompt"
                  => LastMessage(messages').content = DENIAL_LIMIT_REPLY))]_vars

\* the command of a run_command call is rejected by the allowlist
Denies(raw) ==
    LET parsed == parse_arguments(raw)
        command == Strip(IF parsed.args.command = NoText THEN <<>> ELSE parsed.args.command)
    IN /\ ~parsed.raised
       /\ parsed.isdict
       /\ command /= <<>>
       /\ validate_command(command, ALLOWED_COMMANDS).kind = "denied"

\* C4: the denial counter never decreases over the session, whatever the step
\* (user input, compaction, backend call, tool execution, cancellation); the
\* limit is reported exactly when the counter is >= MAX_DENIALS, so once reached
\* it stays reached; and a denied command is reported as denied and counted
\* whatever the counter already is, a fourth one after the limit included.
C4_DenialCounterMonotonic ==
    [][/\ denial_count' >= denial_count
       /\ denials_exceeded(denial_count) => denials_exceeded(denial_count')
       /\ (ExecToolStep /\ last'.name = "run_command" /\ Denies(last'.raw))
             => (/\ ~last'.res.raised
                 /\ last'.res.status = "denied"
                 /\ denial_count' = denial_count + 1
                 /\ last'.res.denied_limit <=> (denial_count' >= 3))]_vars

\* a fourth command has been denied after the limit was reached
C4_Witness ==
    /\ last.op = "execute"
    /\ last.res.status = "denied"
    /\ last.res.denied_limit
    /\ denial_count = MAX_DENIALS + 1
    /\ Len(SelectSeq(tool_events, LAMBDA e : e.status = <<"denied (limit reached)">>)) = 2

(***************************************************************************)
(* The context engine fed with contents that start with the summary marker.*)
(***************************************************************************)
\* add_message inputs: the system prompt, a second system message, plain chat,
\* and a system and a user message whose content starts with
\* "## Conversation Summary"
MarkerInputs ==
    {[role |-> "system", content |-> SYSTEM_PROMPT, tool_calls |-> <<>>, tool_call_id |-> NONE],
     [role |-> "system", content |-> <<"rules">>, tool_calls |-> <<>>, tool_call_id |-> NONE],
     [role |-> "system", content |-> <<MARKER, "\n", "old">>, tool_calls |-> <<>>,
      tool_call_id |-> NONE],
     [role |-> "user", content |-> <<MARKER, "\n", "mine">>, tool_calls |-> <<>>,
      tool_call_id |-> NONE],
     [role |-> "user", content |-> <<"hi">>, tool_calls |-> <<>>, tool_call_id |-> NONE],
     [role |-> "assistant", content |-> <<"hi">>, tool_calls |-> <<>>, tool_call_id |-> NONE]}

NextMarker ==
    \/ \E in \in MarkerInputs : AddMessage(in)
    \/ \E a \in SummarizerAnswers : Compact(TRUE, FALSE, a)
    \/ Reset

SpecMarker == InitCtx /\ [][NextMarker]_vars

\* the messages of s whose content starts with the summary marker
MarkerCount(s) == Len(SelectSeq(s, LAMBDA m : StartsWithMarker(m.content)))

\* C11: in every reachable state of the log, after adds with any role and
\* content and any compactions, slice(SUMMARY_PLUS_RECENT) holds at most one
\* message whose content starts with the summary marker.
C11_AtMostOneMarkerInSlice ==
    MarkerCount(context_slice(messages, summary, MODE_SUMMARY_PLUS_RECENT, MAX_TURNS)) <= 1

\* the system messages of the log that start with the summary marker
Markers(msgs) == SelectSeq(msgs, LAMBDA m : IsSystem(m) /\ StartsWithMarker(m.content))

\* C12: after a successful compaction, an earlier one having left its marker
\* or not, the log holds exactly one system message starting with the summary
\* marker; its text is the marker followed by the latest summarizer output,
\* which is also the stored summary.
C12_OneMarkerWithLatestSummary ==
    CompactOkState =>
        /\ Len(Markers(messages)) = 1
        /\ Markers(messages)[1].content = <<MARKER, "\n">> \o last.answer.text
        /\ summary = last.answer.text

\* a successful compaction that replaced the marker of an earlier one, the
\* summarizer having answered differently
C12_Witness ==
    /\ CompactOkState
    /\ last.prev /= <<>>
    /\ last.prev /= last.answer.text
    /\ Len(Markers(messages)) = 1

\* C13: after any compaction the log still holds every system message that is
\* not a summary marker, in the original relative order; after a successful
\* one they stand ahead of the summary marker, which stands ahead of the
\* retained chat messages.
C13_SystemPromptsSurvive ==
    [][(last'.op = "compact" /\ last'.called) =>
          LET os == OriginalSystem(messages)
              n == Len(os)
          IN /\ OriginalSystem(messages') = os
             /\ CompactOkStep =>
                   /\ Len(messages') >= n + 1
                   /\ SubSeq(messages', 1, n) = os
                   /\ IsSystem(messages'[n + 1])
                   /\ StartsWithMarker(messages'[n + 1].content)
                   /\ \A i \in (n + 2) .. Len(messages') : ~IsSystem(messages'[i])]_vars

\* a successful compaction of a log holding two different system prompts and a
\* retained chat message
C13_Witness ==
    /\ CompactOkState
    /\ \E i, j \in DOMAIN messages :
          /\ i < j
          /\ messages[i].content = <<"rules">>
          /\ messages[j].content = SYSTEM_PROMPT
    /\ ~IsSystem(LastMessage(messages))

(***************************************************************************)
(* The per-turn flow of cli.py with the default configuration             *)
(* (max_turns 20, keep_recent 5), a summarizer that answers, and a         *)
(* generate that returns some reply: user message, maybe_summarize,        *)
(* generate, reply appended.                                               *)
(***************************************************************************)
\* user messages sent in the session
MaxMessages == 25

\* what generate returns: a reply or the text of a failed request
Replies == {<<"hi">>, FAILED_REPLY}

InitTurns ==
    /\ LET c == Construct(MAX_TURNS, TOKEN_LIMIT, MESSAGES_AFTER_SUMMARIZATION)
       IN /\ max_turns = c.max_turns
          /\ keep_recent = c.keep_recent
          /\ token_limit = c.token_limit
    /\ messages = Added(<<>>, [role |-> "system", content |-> SYSTEM_PROMPT,
                               tool_calls |-> <<>>, tool_call_id |-> NONE])
    /\ summary = <<>>
    /\ StateInit
    /\ ToolsInit
    /\ pc = "prompt"
    /\ pending = <<>>
    /\ loops = 0
    /\ turn = NoTurn
    /\ last = Step("init")

\* cli.py 109-110; turn.summaries counts the summarizer calls of the session
TurnInput ==
    /\ pc = "prompt"
    /\ turn.n < MaxMessages
    /\ messages' = Append(messages, Message("user", <<"hi">>, <<>>, NONE))
    /\ pc' = "summarize"
    /\ turn' = [turn EXCEPT !.n = @ + 1]
    /\ last' = Step("user")
    /\ UNCHANGED <<summary, max_turns, keep_recent, token_limit, pending, loops>>
    /\ UNCHANGED <<stVars, toolVars>>

\* cli.py 117-128: generate returns and the reply is appended
TurnReply(text) ==
    /\ pc = "generate"
    /\ messages' = Reply(messages, text)
    /\ pc' = "prompt"
    /\ last' = Step("reply")
    /\ UNCHANGED <<summary, max_turns, keep_recent, token_limit, pending, loops, turn>>
    /\ UNCHANGED <<stVars, toolVars>>

NextTurns ==
    \/ TurnInput
    \/ \E a \in {x \in SummarizerAnswers : x.text /= <<>>} : SummarizeStep(a)
    \/ \E text \in Replies : TurnReply(text)

SpecTurns == InitTurns /\ [][NextTurns]_vars

\* the chat turns in the RECENT slice of window 20
RecentTurns == Turns(NonSystem(context_slice(messages, summary, MODE_RECENT, 20)))

\* C14 as stated: after the user has sent 25 short messages through the
\* per-turn flow compaction has fired exactly once, and slice(RECENT, 20) holds
\* at most 20 chat turns plus the system messages.
C14_CompactionFiresOnce ==
    (pc = "prompt" /\ turn.n = 25) =>
        /\ turn.summaries = 1
        /\ RecentTurns <= 20

\* C14 as amended: every turn appends a user message and a reply, so the
\* summarizer is called on the 11th and on the 19th user message and on no
\* other of the first 25: compaction has fired twice when the 25th turn ends,
\* and slice(RECENT, 20) then holds the system messages and at most 20 chat
\* turns.
C14_CompactionFiresTwice ==
    /\ (pc = "generate" /\ last.op = "compact" /\ turn.n <= 25)
          => (last.called <=> turn.n \in {11, 19})
    /\ (pc = "prompt" /\ turn.n = 25) =>
          /\ turn.summaries = 2
          /\ RecentTurns <= 20
          /\ SelectSeq(context_slice(messages, summary, MODE_RECENT, 20), IsSystem)
                = SelectSeq(messages, IsSystem)

\* the 25th turn has ended
C14_Witness ==
    /\ pc = "prompt"
    /\ turn.n = 25
    /\ turn.summaries = 2
    /\ LastMessage(messages).role = "assistant"

(***************************************************************************)
(* The session with a backend that may ask for a tool on every iteration:  *)
(* the backend calls are bounded by the turns only.                        *)
(***************************************************************************)
\* user turns in the session
MaxLoopTurns == 1
MaxCmd == 3
MaxPath == 3
MaxTrackerEvents == 6
MaxTrackerDenials == 1

\* the tool-call lists a backend response may carry: a listing on every
\* iteration, in the last three iterations of a turn also a command outside the
\* allowlist, and in the last one also a call with malformed arguments
LoopBatches ==
    { <<Ls("c1")>> }
        \cup (IF loops >= MAX_TOOL_LOOPS - 3 THEN { <<Rm("c1")>> } ELSE {})
        \cup (IF loops >= MAX_TOOL_LOOPS - 1 THEN { <<Bad("c1")>> } ELSE {})

\* the final reply of the backend
LoopFinals == { [text |-> <<"hi">>, hypothesis |-> <<"h1">>] }

NextLoop ==
    \/ UserInputIf(turn.n < MaxLoopTurns)
    \/ \E a \in SessionAnswers : SummarizeStep(a)
    \/ BackendFailsIf(TRUE)
    \/ \E f \in LoopFinals : BackendFinalIf(f, TRUE)
    \/ \E batch \in LoopBatches : BackendToolsIf(batch, TRUE)
    \/ ExecTool
    \/ InterruptIf(TRUE)

SpecLoop == InitSession /\ [][NextLoop]_vars

\* the tenth tool round of the turn has just been handled
TenthRoundDone == turn.backend = MAX_TOOL_LOOPS /\ last.op = "execute" /\ pending = <<>>

\* the backend calls of a turn are bounded by MAX_TOOL_LOOPS
LoopBounded ==
    /\ turn.backend <= MAX_TOOL_LOOPS
    /\ loops <= MAX_TOOL_LOOPS
    /\ pc \in {"generate", "tools"} => loops < MAX_TOOL_LOOPS

\* C15 as stated: a turn makes at most 10 backend calls, and when the backend
\* has asked for tools on all 10 iterations the turn returns the fixed
\* 'tool loop limit reached' text as an ordinary reply, without an exception.
C15_LoopLimitReply ==
    /\ LoopBounded
    /\ TenthRoundDone =>
          /\ pc = "prompt"
          /\ LastMessage(messages).content = LOOP_LIMIT_REPLY

\* C15 as amended: a turn makes at most 10 backend calls and no backend call
\* follows the tenth tool round; that round ends the turn with the exception
\* of execute when the call's arguments are malformed, else with the
\* denial-limit reply when the denial counter is at the limit, else with the
\* 'tool loop limit reached' reply.
C15_LoopLimit ==
    /\ LoopBounded
    /\ TenthRoundDone =>
          IF last.res.raised THEN pc = "crashed"
          ELSE /\ pc = "prompt"
               /\ LastMessage(messages).role = "assistant"
               /\ LastMessage(messages).tool_calls = <<>>
               /\ LastMessage(messages).content =
                     IF denials_exceeded(denial_count) THEN DENIAL_LIMIT_REPLY
                     ELSE LOOP_LIMIT_REPLY

\* a turn in which the backend asked for a tool ten times has ended with the
\* loop-limit reply
C15_Witness ==
    /\ TenthRoundDone
    /\ loops = MAX_TOOL_LOOPS
    /\ pc = "prompt"
    /\ LastMessage(messages).content = LOOP_LIMIT_REPLY

\* the position in the log of the last assistant message that carries tool calls
LastCallsAt(msgs) ==
    CHOOSE a \in DOMAIN msgs :
        /\ msgs[a].tool_calls /= <<>>
        /\ \A b \in (a + 1) .. Len(msgs) : msgs[b].tool_calls = <<>>

\* the log from position a on is the record of a tool round of which k calls
\* have been executed: the assistant message with the calls, then one tool
\* message per executed call, in the order of the calls and keyed by their ids
RoundRecorded(msgs, a, k) ==
    /\ msgs[a].role = "assistant"
    /\ k <= Len(msgs[a].tool_calls)
    /\ a + k <= Len(msgs)
    /\ \A i \in 1 .. k :
          /\ msgs[a + i].role = "tool"
          /\ msgs[a + i].tool_call_id = msgs[a].tool_calls[i].id

\* C16: a backend response with tool calls is recorded as one assistant
\* message carrying all the calls, followed by one tool message per call, in
\* the order received, holding that call's result and keyed by its id; the
\* calls are executed in that order and nothing is appended in between.
C16_RoundRecordedInOrder ==
    /\ pc = "tools" =>
          LET a == LastCallsAt(messages)
              batch == messages[a].tool_calls
              k == Len(batch) - Len(pending)
          IN /\ pending /= <<>>
             /\ \A j \in 1 .. Len(pending) :
                   /\ pending[j].id = batch[k + j].id
                   /\ pending[j].name = batch[k + j].name
                   /\ pending[j].input = batch[k + j].input
             /\ Len(messages) = a + k
             /\ RoundRecorded(messages, a, k)
    /\ (last.op = "execute" /\ ~last.res.raised) =>
          LET a == LastCallsAt(messages)
              batch == messages[a].tool_calls
              k == Len(batch) - Len(pending)
              replied == IF pc = "prompt" THEN 1 ELSE 0
          IN /\ k >= 1
             /\ Len(messages) = a + k + replied
             /\ RoundRecorded(messages, a, k)
             /\ messages[a + k].content = last.res.output
             /\ batch[k].name = last.name /\ batch[k].input = last.raw
             /\ pc /= "tools" => k = Len(batch)

\* a round of two different calls has been handled and recorded
C16_Witness ==
    /\ last.op = "execute"
    /\ pc = "generate"
    /\ LET a == LastCallsAt(messages)
       IN /\ Len(messages[a].tool_calls) = 2
          /\ Len(messages) = a + 2
          /\ messages[a].tool_calls[1].input /= messages[a].tool_calls[2].input
          /\ messages[a + 1].content /= messages[a + 2].content
          /\ messages[a + 1].tool_call_id = "c1"
          /\ messages[a + 2].tool_call_id = "c2"

\* C17: a backend transport failure ends the turn at once: the failure text,
\* prefixed with the backend name, is appended as the turn's reply, no tool is
\* executed and nothing else changes; the only steps that can follow are the
\* next user input or the end of the session, so nothing is retried.
C17_FailureEndsTurn ==
    [][/\ last'.op = "failed" =>
             /\ pc' = "prompt"
             /\ pending' = <<>>
             /\ messages' = Append(messages, Message("assistant", FAILED_REPLY, <<>>, NONE))
             /\ FAILED_REPLY[1] = "anthropic"
             /\ UNCHANGED <<tool_events, denial_count, summary>>
       /\ last.op = "failed" => last'.op \in {"user", "quit"}]_vars

\* the turn after a failed one has run to its reply
C17_Witness ==
    /\ turn.n = 2
    /\ last.op = "final"
    /\ pc = "prompt"
    /\ \E i \in DOMAIN messages :
          /\ messages[i].content = FAILED_REPLY
          /\ i + 2 = Len(messages)
          /\ messages[i + 1].role = "user"

(***************************************************************************)
(* The command validator on its own: run_command is called once with a     *)
(* command drawn from the bounded set Commands, under either allowlist.    *)
(***************************************************************************)
Atoms == {"ls", "rm", ";", "&", "$", "(", "|", SPACE, BACKSLASH, SQUOTE, DQUOTE, BACKTICK}

\* the commands tried: an optional allowed command in front, up to MaxCmd
\* further characters, and an optional command that is not allowed at the end
Bodies == UNION {[1 .. n -> Atoms] : n \in 0 .. MaxCmd}
Commands == {p \o b \o q : p \in {<<>>, <<"ls", SPACE>>}, b \in Bodies, q \in {<<>>, <<"rm">>}}

InitCmd ==
    /\ messages = <<>>
    /\ summary = <<>>
    /\ max_turns = MAX_TURNS
    /\ keep_recent = MESSAGES_AFTER_SUMMARIZATION
    /\ token_limit = TOKEN_LIMIT
    /\ StateInit
    /\ ALLOWED_COMMANDS \in Allowlists
    /\ root_dir = FALSE
    /\ provider = "anthropic"
    /\ pc = "idle"
    /\ pending \in {<<Call("c1", "run_command", AsMap(Cmd(c)))>> : c \in Commands}
    /\ loops = 0
    /\ turn = NoTurn
    /\ last = [op |-> "init"]

\* _tool_run_command 269-276: the command reaches subprocess.run
Launched(args, allow) ==
    LET command == Strip(IF args.command = NoText THEN <<>> ELSE args.command)
    IN command /= <<>> /\ validate_command(command, allow).kind = "pass"

\* one call of execute for the pending run_command call; last keeps the command
\* as _validate_command receives it, the segments it is split into when the
\* allowlist loop runs, and whether the subprocess was started
RunCommand ==
    /\ pending /= <<>>
    /\ \E res \in {execute(Head(pending).name, Head(pending).input, TRUE, TRUE, "ok",
                           denial_count, tool_events, ALLOWED_COMMANDS, root_dir)} :
          LET args == Head(pending).input.map
              command == Strip(args.command)
              segmented == /\ command /= <<>>
                           /\ ~Dangerous(command)
                           /\ ALLOWED_COMMANDS /= {}
          IN /\ denial_count' = res.denial_count
             /\ tool_events' = res.tool_events
             /\ pending' = Tail(pending)
             /\ last' = [op |-> "run_command", command |-> command, res |-> res,
                         segmented |-> segmented,
                         segments |-> IF segmented THEN split_pipe_commands(command)
                                      ELSE <<>>,
                         launched |-> Launched(args, ALLOWED_COMMANDS),
                         denials0 |-> denial_count]
             /\ UNCHANGED ctxVars
             /\ UNCHANGED <<hypothesis, st_summary, context_info, skills>>
             /\ UNCHANGED <<toolVars, pc, loops, turn>>

NextCmd == RunCommand

SpecCmd == InitCmd /\ [][NextCmd]_vars

\* the character at position i is escaped: it follows a backslash that is not
\* itself escaped
RECURSIVE EscapedAt(_, _)
EscapedAt(command, i) ==
    i > 1 /\ command[i - 1] = BACKSLASH /\ ~EscapedAt(command, i - 1)

\* one of ';', '&&', a backtick or '$(' starts at position i
OperatorAt(command, i) ==
    \/ command[i] = ";"
    \/ command[i] = "&" /\ i < Len(command) /\ command[i + 1] = "&"
    \/ command[i] = BACKTICK
    \/ command[i] = "$" /\ i < Len(command) /\ command[i + 1] = "("

\* the execute call ended in the operator check's ToolError
OperatorRejected(res) ==
    /\ ~res.raised
    /\ res.status = "error"
    /\ res.output = <<"Tool error: ", "Shell chaining operators not allowed.">>

\* C18: the operator check rejects every command that holds an occurrence of
\* ';', '&&', a backtick or '$(' that is not backslash-escaped, whatever the
\* allowlist, and the command is not run.
C18_UnescapedOperatorRejected ==
    (/\ last.op = "run_command"
     /\ \E i \in DOMAIN last.command :
           OperatorAt(last.command, i) /\ ~EscapedAt(last.command, i))
    => (OperatorRejected(last.res) /\ ~last.launched)

\* C18, its other half: a command in which every occurrence of the four
\* operators follows a backslash is not rejected by the operator check.
C18_EscapedOperatorPasses ==
    (/\ last.op = "run_command"
     /\ last.command /= <<>>
     /\ \A i \in DOMAIN last.command :
           OperatorAt(last.command, i) => (i > 1 /\ last.command[i - 1] = BACKSLASH))
    => ~OperatorRejected(last.res)

\* the scanner of _split_pipe_commands with the escape kept as a pending flag:
\* a quote or a '|' counts as escaped when EscapedAt says so
RECURSIVE PendingScan(_, _, _, _, _, _)
PendingScan(command, i, segments, current, in_single, in_double) ==
    IF i > Len(command) THEN Append(segments, current)
    ELSE LET ch == command[i]
             plain == ~EscapedAt(command, i)
         IN IF plain /\ ch = SQUOTE /\ ~in_double
            THEN PendingScan(command, i + 1, segments, Append(current, ch),
                             ~in_single, in_double)
            ELSE IF plain /\ ch = DQUOTE /\ ~in_single
            THEN PendingScan(command, i + 1, segments, Append(current, ch),
                             in_single, ~in_double)
            ELSE IF plain /\ ch = "|" /\ ~in_single /\ ~in_double
            THEN PendingScan(command, i + 1, Append(segments, current), <<>>,
                             in_single, in_double)
            ELSE PendingScan(command, i + 1, segments, Append(current, ch),
                             in_single, in_double)

\* the segments between the '|' characters that are outside quotes and not
\* escaped, a '|' after an escaped backslash being not escaped
PipelineSegments(command) == PendingScan(command, 1, <<>>, <<>>, FALSE, FALSE)

\* C19: pipeline segmentation splits the command at exactly the '|' characters
\* that are outside single quotes, outside double quotes and not escaped by a
\* backslash, a '|' preceded by an escaped backslash counting as not escaped.
C19_SplitsAtUnescapedPipes ==
    (last.op = "run_command" /\ last.segmented)
    => last.segments = PipelineSegments(last.command)

\* the segment is empty once stripped, or shlex.split gives it a first token
\* that is in the allowlist
LeadingAllowed(segment, allowed) ==
    LET stripped == Strip(segment)
        lexed == shlex_split(stripped)
    IN \/ stripped = <<>>
       \/ ~lexed.raised /\ lexed.parts /= <<>> /\ lexed.parts[1] \in allowed

\* C20: with a non-empty allowlist a command passes validation, and is run,
\* only if the leading token of every non-empty pipeline segment is in the
\* allowlist.
C20_PassOnlyIfEverySegmentAllowed ==
    (last.op = "run_command" /\ ALLOWED_COMMANDS /= {} /\ last.launched)
    => \A k \in DOMAIN PipelineSegments(last.command) :
          LeadingAllowed(PipelineSegments(last.command)[k], ALLOWED_COMMANDS)

(***************************************************************************)
(* The file tools on their own: one call of read_file, list_files or grep  *)
(* with a path drawn from the bounded set Paths, with and without a root.  *)
(***************************************************************************)
Components == {".", "..", "sub", "link", "project", "etc"}

Paths == {PathArg(abs, parts) :
             abs \in BOOLEAN, parts \in UNION {[1 .. n -> Components] : n \in 0 .. MaxPath}}
            \ {PathArg(FALSE, <<>>)}

FileArgs(path) == [command |-> NoText, path |-> path, pattern |-> "valid"]

InitPath ==
    /\ messages = <<>>
    /\ summary = <<>>
    /\ max_turns = MAX_TURNS
    /\ keep_recent = MESSAGES_AFTER_SUMMARIZATION
    /\ token_limit = TOKEN_LIMIT
    /\ StateInit
    /\ ALLOWED_COMMANDS = {}
    /\ root_dir \in BOOLEAN
    /\ provider = "anthropic"
    /\ pc = "idle"
    /\ pending \in {<<Call("c1", name, AsMap(FileArgs(path)))>> :
                       name \in {"read_file", "list_files", "grep"}, path \in Paths}
    /\ loops = 0
    /\ turn = NoTurn
    /\ last = [op |-> "init"]

\* one call of execute for the pending file-tool call; last keeps the path, the
\* place it resolves to and whether the handler went on to open that place
RunFileTool(env) ==
    /\ pending /= <<>>
    /\ \E res \in {execute(Head(pending).name, Head(pending).input, TRUE, TRUE, env,
                           denial_count, tool_events, ALLOWED_COMMANDS, root_dir)} :
          LET path == Head(pending).input.map.path
              r == resolve_path(path, root_dir)
          IN /\ denial_count' = res.denial_count
             /\ tool_events' = res.tool_events
             /\ pending' = Tail(pending)
             /\ last' = [op |-> "file_tool", name |-> Head(pending).name, path |-> path,
                         env |-> env, res |-> res, resolved |-> r.resolved,
                         opened |-> r.kind = "ok", denials0 |-> denial_count]
             /\ UNCHANGED ctxVars
             /\ UNCHANGED <<hypothesis, st_summary, context_info, skills>>
             /\ UNCHANGED <<toolVars, pc, loops, turn>>

NextPath == \E env \in {"ok", "fails"} : RunFileTool(env)

SpecPath == InitPath /\ [][NextPath]_vars

\* the place is the project root or lies below it
AtOrBelowRoot(place) == \E k \in 0 .. Len(place) : SubSeq(place, 1, k) = ROOT

\* the call was refused for leaving the root
ContainmentError(res) ==
    /\ ~res.raised
    /\ res.status = "error"
    /\ res.output = <<"Tool error: ", "Access outside project root denied">>

\* C21: with a configured root, a file-tool path that resolves outside the
\* root, through ".." components, an absolute path or a link, is rejected with
\* status 'error', the denial counter unchanged and nothing opened; a path that
\* resolves to the root or below it is accepted, so the call succeeds when the
\* file access does; with no root configured no path is rejected.
C21_PathContainment ==
    last.op = "file_tool" =>
        /\ denial_count = last.denials0
        /\ (root_dir /\ ~AtOrBelowRoot(last.resolved))
              => (ContainmentError(last.res) /\ ~last.opened)
        /\ (root_dir /\ AtOrBelowRoot(last.resolved))
              => (last.opened /\ (last.env = "ok" => last.res.status = "ok"))
        /\ ~root_dir => (last.opened /\ ~ContainmentError(last.res))

\* a relative path that climbs out of the root was rejected
C21_Witness ==
    /\ last.op = "file_tool"
    /\ root_dir
    /\ ~last.path.abs
    /\ ".." \in {last.path.parts[i] : i \in DOMAIN last.path.parts}
    /\ last.resolved = <<"etc">>
    /\ ContainmentError(last.res)

\* C22 as stated: add never fails; for every role value and content it appends
\* exactly one message to the end of the log and returns it.
C22_AddNeverFails ==
    [][last'.op = "add"
       => (~last'.raised /\ messages' = Append(messages, last'.returned))]_vars

\* C22: add with one of the four roles, or with no role, appends exactly one
\* message to the end of the log and returns it: the role given (user when
\* none), the content given (empty when none), the tool calls and the tool-call
\* id; add with any other role raises and leaves the log as it was.
C22_AddAppendsOrRejects ==
    [][last'.op = "add"
       => LET in == last'.in
          IN IF in.role \in {"system", "user", "assistant", "tool", NONE}
             THEN /\ ~last'.raised
                  /\ messages' = Append(messages, last'.returned)
                  /\ last'.returned.role = (IF in.role = NONE THEN "user" ELSE in.role)
                  /\ last'.returned.content
                        = (IF in.content = NoText THEN <<>> ELSE in.content)
                  /\ last'.returned.tool_calls = in.tool_calls
                  /\ last'.returned.tool_call_id = in.tool_call_id
                  /\ UNCHANGED summary
             ELSE /\ last'.raised
                  /\ UNCHANGED <<messages, summary>>]_vars

\* add was called with an unsupported role on a log that holds messages, and
\* with no role and with no content
C22_Witness ==
    /\ last.op = "add"
    /\ last.raised
    /\ last.in.role = "bogus"
    /\ \E i \in DOMAIN messages : messages[i].content = <<>>
    /\ \E i \in DOMAIN messages : messages[i].role = "user" /\ messages[i].content = <<"MED">>

(***************************************************************************)
(* The session with configurations whose compaction keeps more than the    *)
(* last user message, so that tool rounds stay in the rebuilt log.         *)
(***************************************************************************)
PairArgs == {<<3, 1, 2>>, <<4, 1, 3>>}

InitPairs ==
    /\ \E a \in PairArgs :
          LET c == Construct(a[1], a[2], a[3])
          IN /\ ~c.raised
             /\ max_turns = c.max_turns
             /\ keep_recent = c.keep_recent
             /\ token_limit = c.token_limit
    /\ messages = Added(<<>>, [role |-> "system", content |-> SYSTEM_PROMPT,
                               tool_calls |-> <<>>, tool_call_id |-> NONE])
    /\ summary = <<>>
    /\ StateInit
    /\ ALLOWED_COMMANDS \in Allowlists
    /\ root_dir = FALSE
    /\ provider = "anthropic"
    /\ pc = "prompt"
    /\ pending = <<>>
    /\ loops = 0
    /\ turn = NoTurn
    /\ last = Step("init")

SpecPairs == InitPairs /\ [][Next]_vars

\* the tool message at index i answers a call of an assistant message before it
Answered(msgs, i) ==
    \E j \in 1 .. i - 1 :
        /\ msgs[j].role = "assistant"
        /\ \E c \in DOMAIN msgs[j].tool_calls : msgs[j].tool_calls[c].id = msgs[i].tool_call_id

\* C23: in every reachable state of the log, whatever the interleaving of user
\* turns, tool rounds, cancelled turns, transport failures and compactions,
\* every tool message carries the id of a call of an assistant message that
\* lies earlier in the log.
C23_ToolMessagesAnswerEarlierCalls ==
    \A i \in DOMAIN messages :
        messages[i].role = "tool"
            => (messages[i].tool_call_id /= NONE /\ Answered(messages, i))

\* a compaction has rebuilt the log and a tool round is still in it
C23_Witness ==
    /\ summary /= <<>>
    /\ last.op = "compact"
    /\ last.called
    /\ \E i \in DOMAIN messages : messages[i].role = "tool"
    /\ \E i \in DOMAIN messages : StartsWithMarker(messages[i].content)

\* the call lacks a field its tool requires: the command of run_command, the
\* path of read_file, the pattern of grep
MissingRequired(name, raw) ==
    /\ raw.form \in {"map", "empty", "json"}
    /\ \/ name = "run_command" /\ parse_arguments(raw).args.command = NoText
       \/ name = "read_file" /\ ~parse_arguments(raw).args.path.given
       \/ name = "grep" /\ parse_arguments(raw).args.pattern = "absent"

\* C24: when the tool name is unknown, the arguments are malformed or a
\* required field is missing, execute returns status 'error' with denied_limit
\* false and the denial counter is unchanged.
C24_InvalidCallReturnsError ==
    [][(/\ last'.op = "execute"
        /\ \/ last'.name \notin ToolNames
           \/ last'.raw.form = "badjson"
           \/ MissingRequired(last'.name, last'.raw))
       => (/\ ~last'.res.raised
           /\ last'.res.status = "error"
           /\ ~last'.res.denied_limit
           /\ denial_count' = denial_count)]_vars

\* C25: on a denial with a state tracker, execute adds exactly one to
\* denial_count, appends exactly one tool event and returns status 'denied',
\* with denied_limit true exactly when the counter after the increment is >= 3;
\* the event status is 'denied (limit reached)' in that case and 'denied'
\* otherwise.  Whenever execute returns, the status is ok, denied or error.
C25_DenialCountedAndLogged ==
    [][(last'.op = "execute" /\ ~last'.res.raised)
       => /\ last'.res.status \in {"ok", "denied", "error"}
          /\ (last'.name = "run_command" /\ last'.has_state /\ Denies(last'.raw))
                => /\ last'.res.status = "denied"
                   /\ denial_count' = denial_count + 1
                   /\ last'.res.denied_limit <=> (denial_count' >= 3)
                   /\ Len(tool_events') = Len(tool_events) + 1
                   /\ SubSeq(tool_events', 1, Len(tool_events)) = tool_events
                   /\ tool_events'[Len(tool_events')].name = "run_command"
                   /\ tool_events'[Len(tool_events')].status
                         = (IF denial_count' >= 3 THEN <<"denied (limit reached)">>
                            ELSE <<"denied">>)]_vars

\* the third denial has just been counted and logged as reaching the limit
C25_Witness ==
    /\ last.op = "execute"
    /\ last.has_state
    /\ last.res.status = "denied"
    /\ last.res.denied_limit
    /\ denial_count = 3
    /\ Len(tool_events) = 3
    /\ tool_events[3].status = <<"denied (limit reached)">>
    /\ tool_events[2].status = <<"denied">>

\* C26: execute with an unknown tool name returns status 'error' and changes
\* nothing: the tool-event log, the denial counter and the rest of the tracker
\* are unchanged, the notifier is not called and the result is the lookup's
\* own message, not a handler's.
C26_UnknownToolChangesNothing ==
    [][(last'.op = "execute" /\ last'.name \notin ToolNames)
       => /\ ~last'.res.raised
          /\ last'.res.status = "error"
          /\ ~last'.res.denied_limit
          /\ last'.res.output = <<"Unknown tool ", last'.name>>
          /\ ~last'.res.notified
          /\ UNCHANGED <<tool_events, denial_count, hypothesis, st_summary, context_info>>
          /\ UNCHANGED <<messages, summary>>]_vars

\* an unknown tool was called on a tracker that holds events and denials
C26_Witness ==
    /\ last.op = "execute"
    /\ last.name \notin ToolNames
    /\ last.has_state
    /\ last.res.status = "error"
    /\ denial_count >= 1
    /\ Len(tool_events) >= 2

(***************************************************************************)
(* The state tracker on its own: any sequence of calls of its setters and  *)
(* of context_block on one StateManager.                                   *)
(***************************************************************************)
InitState ==
    /\ messages = <<>>
    /\ summary = <<>>
    /\ max_turns = MAX_TURNS
    /\ keep_recent = MESSAGES_AFTER_SUMMARIZATION
    /\ token_limit = TOKEN_LIMIT
    /\ StateInit
    /\ ToolsInit
    /\ NoSession
    /\ last = [op |-> "init"]

TrackerFrame ==
    /\ UNCHANGED ctxVars
    /\ UNCHANGED context_info
    /\ UNCHANGED <<toolVars, sessVars>>

SetHypothesis(value) ==
    /\ hypothesis' = set_hypothesis(value)
    /\ last' = [op |-> "set_hypothesis", value |-> value]
    /\ UNCHANGED <<tool_events, denial_count, st_summary, skills>>
    /\ TrackerFrame

AddToolEvent(name, args, status) ==
    /\ Len(tool_events) < MaxTrackerEvents
    /\ tool_events' = add_tool_event(tool_events, name, args, status)
    /\ last' = [op |-> "add_tool_event"]
    /\ UNCHANGED <<hypothesis, denial_count, st_summary, skills>>
    /\ TrackerFrame

AddDenial ==
    /\ denial_count < MaxTrackerDenials
    /\ denial_count' = add_denial(denial_count)
    /\ last' = [op |-> "add_denial"]
    /\ UNCHANGED <<hypothesis, tool_events, st_summary, skills>>
    /\ TrackerFrame

SetSummary(value) ==
    /\ st_summary' = set_summary(st_summary, value)
    /\ last' = [op |-> "set_summary", value |-> value]
    /\ UNCHANGED <<hypothesis, tool_events, denial_count, skills>>
    /\ TrackerFrame

AddSkill(name, path, truncated) ==
    /\ skills' = add_skill(skills, name, path, truncated)
    /\ last' = [op |-> "add_skill", name |-> name, path |-> path, truncated |-> truncated]
    /\ UNCHANGED <<hypothesis, tool_events, denial_count, st_summary>>
    /\ TrackerFrame

\* context_block() is called; last keeps what it returned
Render ==
    /\ last' = [op |-> "context_block",
                block |-> render_block(hypothesis, tool_events, denial_count, st_summary)]
    /\ UNCHANGED stVars
    /\ UNCHANGED ctxVars
    /\ UNCHANGED <<toolVars, sessVars>>

\* the events, summaries and skills the calls are made with
EventInputs == {<<"run_command", "ls", <<"ok">>>>, <<"grep", "x", <<"denied">>>>}
SummaryInputs == {NoText, <<>>, <<"s1">>, <<"s2">>}
SkillInputs == {<<"a", "p1", FALSE>>, <<"a", "p2", TRUE>>, <<"b", "p1", FALSE>>}

NextState ==
    \/ \E value \in {NoText, <<"h1">>} : SetHypothesis(value)
    \/ \E e \in EventInputs : AddToolEvent(e[1], e[2], e[3])
    \/ AddDenial
    \/ \E value \in SummaryInputs : SetSummary(value)
    \/ \E k \in SkillInputs : AddSkill(k[1], k[2], k[3])
    \/ Render

SpecState == InitState /\ [][NextState]_vars

\* the headings of the sections, in the order of the block
SectionOrder ==
    <<"Working hypothesis: ", "Recent tool calls:", "Command denials: ", "Session summary: ">>

\* the section has something to say in the current state
SectionFilled(section) ==
    CASE section = "Working hypothesis: " -> hypothesis /= <<>>
      [] section = "Recent tool calls:" -> tool_events /= <<>>
      [] section = "Command denials: " -> denial_count /= 0
      [] section = "Session summary: " -> st_summary /= <<>>

\* C27: context_block returns the empty text exactly when the hypothesis is
\* empty, the tool-event log is empty, denial_count is 0 and the summary is
\* empty; otherwise it returns the '## Agent State' heading followed by exactly
\* the non-empty sections in the order hypothesis, tool events, denial count,
\* summary, the tool-event section listing the last 5 events in log order.
C27_BlockHoldsFilledSections ==
    last.op = "context_block" =>
        LET block == last.block
            n == Len(tool_events)
        IN /\ block.heading = <<>>
                <=> (/\ hypothesis = <<>> /\ tool_events = <<>>
                     /\ denial_count = 0 /\ st_summary = <<>>)
           /\ block.heading = <<>> => block.parts = <<>>
           /\ block.heading /= <<>> => block.heading = <<"## Agent State">>
           /\ [k \in DOMAIN block.parts |-> block.parts[k].section]
                 = SelectSeq(SectionOrder, SectionFilled)
           /\ \A k \in DOMAIN block.parts :
                 LET body == block.parts[k].body
                 IN CASE block.parts[k].section = "Working hypothesis: " -> body = hypothesis
                      [] block.parts[k].section = "Recent tool calls:" ->
                            /\ Len(body) = Min(5, n)
                            /\ \A e \in DOMAIN body : body[e] = tool_events[n - Len(body) + e]
                      [] block.parts[k].section = "Command denials: " ->
                            body = <<denial_count, 3>>
                      [] block.parts[k].section = "Session summary: " -> body = st_summary

\* the block was rendered with all four sections and more than 5 events logged
C27_Witness ==
    /\ last.op = "context_block"
    /\ Len(last.block.parts) = 4
    /\ Len(tool_events) = 6
    /\ tool_events[1] /= tool_events[6]

\* C28: when generate is interrupted, while it waits for the backend or
\* between tool calls, exactly one assistant message with the fixed cancelled
\* marker is appended in place of a reply, the calls still pending are dropped
\* and the tracker is untouched; the only steps that can follow are the next
\* user input or the end of the session, so the backend is not called again
\* for that input.
C28_InterruptCancelsTurn ==
    [][/\ last'.op = "cancel" =>
             /\ messages' = Append(messages, Message("assistant", CANCELLED, <<>>, NONE))
             /\ pc' = "prompt"
             /\ pending' = <<>>
             /\ UNCHANGED <<summary, stVars>>
       /\ last.op = "cancel" => last'.op \in {"user", "quit"}]_vars

\* a turn cancelled in the middle of a tool round was followed by a turn that
\* ran to its reply
C28_Witness ==
    /\ turn.n = 2
    /\ last.op = "final"
    /\ pc = "prompt"
    /\ \E i \in DOMAIN messages :
          /\ i > 1
          /\ messages[i].content = CANCELLED
          /\ messages[i - 1].role = "tool"
          /\ i + 2 = Len(messages)
          /\ messages[i + 1].role = "user"

\* C29: the tracker's summary follows 'last non-empty wins': set_summary with
\* empty input leaves the summary unchanged, set_summary with non-empty input
\* replaces it, and no call of the tracker makes a non-empty summary empty.
C29_LastNonEmptySummaryWins ==
    [][/\ last'.op = "set_summary" =>
             IF last'.value = NoText \/ last'.value = <<>>
             THEN st_summary' = st_summary
             ELSE st_summary' = last'.value
       /\ st_summary /= <<>> => st_summary' /= <<>>]_vars

\* set_summary was called with no text on a tracker that holds a summary
C29_Witness ==
    /\ last.op = "set_summary"
    /\ last.value = NoText
    /\ st_summary = <<"s2">>
    /\ hypothesis /= <<>>

\* C30: add_skill is first-load-wins: the skills collection holds at most one
\* entry per name, an entry once made never changes (so it carries the path and
\* the truncated flag of the first call with its name), a call with a new name
\* appends its entry, and a call with a name already held leaves the whole
\* tracker unchanged.
C30_FirstLoadWins ==
    [][/\ \A i \in DOMAIN skills : i \in DOMAIN skills' /\ skills'[i] = skills[i]
       /\ \A i, j \in DOMAIN skills' : skills'[i].name = skills'[j].name => i = j
       /\ last'.op = "add_skill" =>
             IF \E i \in DOMAIN skills : skills[i].name = last'.name
             THEN UNCHANGED stVars
             ELSE skills' = Append(skills, [name |-> last'.name, path |-> last'.path,
                                            truncated |-> last'.truncated])]_vars

\* a skill already loaded was added again with another path and flag
C30_Witness ==
    /\ last.op = "add_skill"
    /\ last.name = "a"
    /\ last.path = "p2"
    /\ last.truncated
    /\ Len(skills) = 2
    /\ \E i \in DOMAIN skills :
          skills[i] = [name |-> "a", path |-> "p1", truncated |-> FALSE]


(***************************************************************************)
(* The session with either remote adapter: cli.build_provider builds the   *)
(* provider named on the command line, and the session keeps it.           *)
(***************************************************************************)
InitWire ==
    /\ \E a \in SessArgs :
          LET c == Construct(a[1], a[2], a[3])
          IN /\ ~c.raised
             /\ max_turns = c.max_turns
             /\ keep_recent = c.keep_recent
             /\ token_limit = c.token_limit
    /\ messages = Added(<<>>, [role |-> "system", content |-> SYSTEM_PROMPT,
                               tool_calls |-> <<>>, tool_call_id |-> NONE])
    /\ summary = <<>>
    /\ StateInit
    /\ ALLOWED_COMMANDS \in Allowlists
    /\ root_dir = FALSE
    /\ provider \in Providers
    /\ pc = "prompt"
    /\ pending = <<>>
    /\ loops = 0
    /\ turn = NoTurn
    /\ last = Step("init")

SpecWire == InitWire /\ [][Next]_vars

\* the fields of a normalized tool call are there to be read
NormalizedCall(tc) == {"id", "name", "input"} \subseteq DOMAIN tc

\* C31: every tool_calls entry stored in an assistant message of the log has
\* the fields id, name and input, whichever adapter recorded the call.
C31_StoredCallsNormalized ==
    \A i \in DOMAIN messages :
       \A c \in DOMAIN messages[i].tool_calls : NormalizedCall(messages[i].tool_calls[c])

\* the part of C31 that holds: the entries recorded by the Anthropic adapter
\* have the fields id, name and input
C31_AnthropicCallsNormalized ==
    provider = "anthropic" => C31_StoredCallsNormalized

C31_AnthropicWitness ==
    /\ provider = "anthropic"
    /\ \E i \in DOMAIN messages : Len(messages[i].tool_calls) = 2

(***************************************************************************)
(* context_slice applied to a stored log: the log and the summary are      *)
(* drawn from bounded sets, each step takes one slice of them.             *)
(***************************************************************************)
\* length of the sliced logs
MaxSliceLog == 4

\* largest window asked for
MaxWindow == 2

\* the messages a stored log is made of
SliceMessages ==
    {Message(in.role, in.content, in.tool_calls, in.tool_call_id) :
        in \in {a \in AddInputs : ~RoleRaises(a.role) /\ a.role /= NONE}}

SliceLogs == UNION {[1 .. n -> SliceMessages] : n \in 0 .. MaxSliceLog}

InitSlice ==
    /\ max_turns = MAX_TURNS
    /\ keep_recent = MESSAGES_AFTER_SUMMARIZATION
    /\ token_limit = TOKEN_LIMIT
    /\ messages \in SliceLogs
    /\ summary \in {<<>>, <<"s1">>}
    /\ StateInit
    /\ ToolsInit
    /\ NoSession
    /\ last = [op |-> "init"]

\* context_slice(mode, limit) on the stored log
Slice(mode, limit) ==
    /\ last' = [op |-> "context_slice", mode |-> mode, limit |-> limit,
                res |-> context_slice(messages, summary, mode, limit)]
    /\ UNCHANGED <<ctxVars, stVars, toolVars, sessVars>>

NextSlice ==
    \E mode \in {MODE_FULL, MODE_RECENT, MODE_SUMMARY_PLUS_RECENT},
       limit \in 0 .. MaxWindow : Slice(mode, limit)

SpecSlice == InitSlice /\ [][NextSlice]_vars

QualifyingIn(msgs) == Cardinality({i \in DOMAIN msgs : Qualifying(msgs[i])})

\* C32: slice(RECENT, window) for window >= 1 is all system messages of the log
\* in log order, followed by a contiguous suffix of the non-system messages that
\* holds at most window qualifying chat turns; when the log holds more than
\* window qualifying turns the suffix holds exactly window of them and begins
\* with a qualifying turn.
C32_RecentSlice ==
    (last.op = "context_slice" /\ last.mode = MODE_RECENT /\ last.limit >= 1) =>
        LET sys == SelectSeq(messages, LAMBDA m : m.role = "system")
            ns == SelectSeq(messages, LAMBDA m : m.role /= "system")
            tail == SubSeq(last.res, Len(sys) + 1, Len(last.res))
        IN /\ Len(last.res) >= Len(sys)
           /\ SubSeq(last.res, 1, Len(sys)) = sys
           /\ IsSuffix(tail, ns)
           /\ QualifyingIn(tail) <= last.limit
           /\ QualifyingIn(ns) > last.limit
                 => /\ QualifyingIn(tail) = last.limit
                    /\ Qualifying(tail[1])

\* a window of one over a log of two chat turns, a tool message and a system
\* message
C32_Witness ==
    /\ last.op = "context_slice" /\ last.mode = MODE_RECENT /\ last.limit = 1
    /\ QualifyingIn(messages) = 2
    /\ \E i \in DOMAIN messages : messages[i].role = "tool"
    /\ \E i \in DOMAIN messages : messages[i].role = "system"
    /\ Len(last.res) < Len(messages)

\* the message that carries the rendered state block
HoldsStateBlock(m) == m.content /= <<>> /\ Head(m.content) = "## Agent State"

\* C33: the state block appended to the summarizer input is transient: after
\* maybe_summarize returns (summarization succeeded, failed or was not needed)
\* the stored log holds no message with the state block, and the summarizer
\* received the full log followed by at most that one extra system message.
C33_StateBlockTransient ==
    [][last'.op = "compact" =>
          /\ \A i \in DOMAIN messages' : ~HoldsStateBlock(messages'[i])
          /\ last'.called =>
                /\ last'.sees_log
                /\ Len(last'.extra) <= 1
                /\ Len(last'.extra) = 1 =>
                      /\ last'.extra[1].role = "system"
                      /\ last'.extra[1].content = context_block
                      /\ HoldsStateBlock(last'.extra[1])]_vars

\* a summarization that succeeded with a state block in the summarizer's input
C33_Witness ==
    /\ last.op = "compact" /\ last.called
    /\ last.answer.text /= <<>>
    /\ last.block /= <<>>
    /\ last.extra /= <<>>
    /\ HoldsStateBlock(last.extra[1])

\* ... and one that failed
C33_FailedWitness ==
    /\ last.op = "compact" /\ last.called
    /\ last.answer.text = <<>>
    /\ last.block /= <<>>

\* the per-message estimate: 0 for empty content, otherwise max(1, floor(length/4))
Estimate(text) ==
    IF StrLen(text) = 0 THEN 0
    ELSE IF StrLen(text) \div 4 >= 1 THEN StrLen(text) \div 4 ELSE 1

RECURSIVE EstimateSum(_)
EstimateSum(msgs) ==
    IF msgs = <<>> THEN 0
    ELSE (IF Head(msgs).role = "system" THEN 0 ELSE Estimate(Head(msgs).content))
         + EstimateSum(Tail(msgs))

\* the token limits the engines of SpecCtx are constructed with
ConfiguredLimits == {a[2] : a \in CtxArgs}

\* C34: the token trigger: compaction is needed whenever the estimates of all
\* non-system messages (user, assistant with or without tool_calls, tool
\* results) sum to at least the effective token limit, which is the configured
\* token_limit plus the system prompt's estimate plus 150, fixed at construction
\* and never changed afterwards.
C34_TokenTrigger ==
    /\ [](/\ \E tl \in ConfiguredLimits : token_limit = tl + Estimate(SYSTEM_PROMPT) + 150
          /\ EstimateSum(messages) >= token_limit
                => needs_compaction(messages, max_turns, token_limit))
    /\ [][/\ token_limit' = token_limit
          /\ (last'.op = "compact" /\ EstimateSum(messages) >= token_limit)
                => (last'.called \/ messages' = messages)]_vars

\* the summarizer was called for the tokens alone, a tool result among them
C34_Witness ==
    /\ last.op = "compact" /\ last.called /\ last.answer.text = <<>>
    /\ chat_count(messages) <= max_turns
    /\ EstimateSum(messages) >= token_limit
    /\ EstimateSum(SelectSeq(messages, LAMBDA m : m.role /= "tool")) < token_limit

(***************************************************************************)
(* run_command on commands that use the fallback operator: a command, some *)
(* text that may hold quotes and backslashes, '||' and a second command.   *)
(***************************************************************************)
\* characters between the first command and the operator
MaxFallback == 3

FallbackAtoms == {"ls", SPACE, BACKSLASH, SQUOTE, DQUOTE}

FallbackCommands ==
    {a \o m \o <<"|", "|">> \o b :
        a \in {<<"ls", SPACE>>, <<"rm", SPACE>>},
        m \in UNION {[1 .. n -> FallbackAtoms] : n \in 0 .. MaxFallback},
        b \in {<<"ls">>, <<"rm">>, <<SPACE, "rm">>}}

InitFallback ==
    /\ messages = <<>>
    /\ summary = <<>>
    /\ max_turns = MAX_TURNS
    /\ keep_recent = MESSAGES_AFTER_SUMMARIZATION
    /\ token_limit = TOKEN_LIMIT
    /\ StateInit
    /\ ALLOWED_COMMANDS \in Allowlists
    /\ root_dir = FALSE
    /\ provider = "anthropic"
    /\ pc = "idle"
    /\ pending \in {<<Call("c1", "run_command", AsMap(Cmd(c)))>> : c \in FallbackCommands}
    /\ loops = 0
    /\ turn = NoTurn
    /\ last = [op |-> "init"]

SpecFallback == InitFallback /\ [][NextCmd]_vars

\* the shell's quoting state after the first k characters of the command:
\* inside single quotes nothing is special, elsewhere a backslash takes the
\* next character literally
RECURSIVE ShellAfter(_, _)
ShellAfter(command, k) ==
    IF k = 0 THEN [quote |-> "none", esc |-> FALSE]
    ELSE LET s == ShellAfter(command, k - 1)
             ch == command[k]
         IN IF s.esc THEN [quote |-> s.quote, esc |-> FALSE]
            ELSE IF s.quote = "single"
            THEN IF ch = SQUOTE THEN [quote |-> "none", esc |-> FALSE] ELSE s
            ELSE IF ch = BACKSLASH THEN [quote |-> s.quote, esc |-> TRUE]
            ELSE IF s.quote = "double"
            THEN IF ch = DQUOTE THEN [quote |-> "none", esc |-> FALSE] ELSE s
            ELSE IF ch = SQUOTE THEN [quote |-> "single", esc |-> FALSE]
            ELSE IF ch = DQUOTE THEN [quote |-> "double", esc |-> FALSE]
            ELSE s

Unquoted == [quote |-> "none", esc |-> FALSE]

\* '||' stands at positions i and i + 1 of a well-formed command, outside quotes
FallbackAt(command, i) ==
    /\ i + 1 <= Len(command)
    /\ command[i] = "|" /\ command[i + 1] = "|"
    /\ ShellAfter(command, i - 1) = Unquoted
    /\ ShellAfter(command, Len(command)) = Unquoted
    /\ \A j \in DOMAIN command : ~OperatorAt(command, j)

\* the command word of a side of the operator
LeadingWord(side) == shlex_split(Strip(side)).parts[1]

\* the first k segments joined by '|' are i - 1 characters long
RECURSIVE JoinedLen(_, _)
JoinedLen(segments, k) ==
    IF k = 0 THEN 0 - 1 ELSE JoinedLen(segments, k - 1) + 1 + Len(segments[k])

\* C35: a command that uses '||' outside quotes, and no forbidden operator, is
\* not rejected by the operator check; the scanner splits it at both pipe
\* characters, the empty middle segment is skipped, and the commands on both
\* sides of '||' are each checked against the allowlist.
C35_FallbackSidesChecked ==
    last.op = "run_command" =>
    \A i \in 1 .. Len(last.command) :
       FallbackAt(last.command, i) =>
          /\ ~OperatorRejected(last.res)
          /\ last.segmented =>
                \E k \in 1 .. Len(last.segments) - 2 :
                   /\ JoinedLen(last.segments, k) = i - 1
                   /\ last.segments[k + 1] = <<>>
          /\ (ALLOWED_COMMANDS /= {} /\ last.launched) =>
                /\ LeadingWord(SubSeq(last.command, 1, i - 1)) \in ALLOWED_COMMANDS
                /\ LeadingWord(SubSeq(last.command, i + 2, Len(last.command)))
                      \in ALLOWED_COMMANDS

\* the same for commands without a backslash, where C35 holds
C35_PlainFallbackSidesChecked ==
    (/\ last.op = "run_command"
     /\ \A j \in DOMAIN last.command : last.command[j] /= BACKSLASH)
       => C35_FallbackSidesChecked

C35_PlainWitness ==
    /\ last.op = "run_command" /\ ALLOWED_COMMANDS /= {}
    /\ last.command = <<"ls", SPACE, SQUOTE, "ls", SQUOTE, "|", "|", SPACE, "rm">>
    /\ last.res.status = "denied"
    /\ Len(last.segments) = 3

\* the command ls '\'||rm under the allowlist {ls, grep}: one segment, run
C35_UncheckedFallbackRun ==
    /\ last.op = "run_command" /\ ALLOWED_COMMANDS /= {}
    /\ last.command = <<"ls", SPACE, SQUOTE, BACKSLASH, SQUOTE, "|", "|", "rm">>
    /\ Len(last.segments) = 1
    /\ last.launched

\* '|'.join(segments)
RECURSIVE JoinPipes(_)
JoinPipes(segments) ==
    IF Len(segments) = 1 THEN segments[1]
    ELSE segments[1] \o <<"|">> \o JoinPipes(Tail(segments))

PipesIn(text) == Cardinality({i \in DOMAIN text : text[i] = "|"})

RECURSIVE PipesKept(_)
PipesKept(segments) ==
    IF segments = <<>> THEN 0 ELSE PipesIn(Head(segments)) + PipesKept(Tail(segments))

\* C36: pipeline segmentation loses no character: joining the segments returned
\* by the scanner with '|' gives back the command, and the number of segments is
\* one more than the number of '|' characters the scanner split at.
C36_JoinRestoresCommand ==
    last.op = "run_command" =>
        LET segments == split_pipe_commands(last.command)
        IN /\ Len(segments) >= 1
           /\ JoinPipes(segments) = last.command
           /\ Len(segments) = 1 + (PipesIn(last.command) - PipesKept(segments))
           /\ last.segmented => last.segments = segments

\* the allowlist loop ran over a command with a quoted '|' and a splitting one
C36_Witness ==
    /\ last.op = "run_command" /\ last.segmented
    /\ Len(last.segments) = 2
    /\ PipesIn(last.command) = 2
    /\ \E i \in DOMAIN last.command : last.command[i] = SPACE

\* C37: with the allowlist as shipped (empty), no sequence of execute calls
\* ever gives status 'denied': denial_count stays 0 and denials_exceeded stays
\* false, and a command with a forbidden operator is reported as an error.
C37_EmptyAllowlistNeverDenies ==
    ALLOWED_COMMANDS = {} =>
        /\ denial_count = 0
        /\ ~denials_exceeded(denial_count)
        /\ (last.op = "execute" /\ ~last.res.raised) =>
              /\ last.res.status \in {"ok", "error"}
              /\ ~last.res.denied_limit
              /\ (last.name = "run_command" /\ FailsValidator(last.raw))
                    => /\ last.res.status = "error"
                       /\ OperatorRejected(last.res)

\* a second call in a row, with a forbidden operator, under the empty allowlist
C37_Witness ==
    /\ ALLOWED_COMMANDS = {}
    /\ last.op = "execute" /\ last.name = "run_command" /\ last.has_state
    /\ FailsValidator(last.raw)
    /\ Len(tool_events) >= 2
    /\ last.res.status = "error"

\* C37 in the session: with the empty allowlist no turn ends with the
\* denial-limit message
C37_NoDenialStopInSession ==
    ALLOWED_COMMANDS = {} =>
        /\ denial_count = 0
        /\ \A i \in DOMAIN messages : messages[i].content /= DENIAL_LIMIT_REPLY

\* the session is inside a turn that started with the denial limit reached
InLaterTurn == pc \in {"generate", "tools"} /\ turn.denials0 >= 3

\* C38: the denial-limit stop is sticky across turns: once denial_count >= 3,
\* in every later turn the first backend response that requests tool calls has
\* all its calls executed and their results appended, and the turn then ends
\* with the denial-limit message even if none of those calls was denied; only
\* a turn whose first response has no tool calls returns a normal reply.
C38_DenialStopSticky ==
    [][/\ denial_count >= 3 => denial_count' >= 3
       /\ InLaterTurn =>
             /\ pc = "generate" => turn.backend = 0
             /\ (ExecToolStep /\ ~last'.res.raised) =>
                   LET a == LastCallsAt(messages)
                       n == Len(messages[a].tool_calls)
                       k == n - Len(pending) + 1
                   IN /\ Len(messages) = a + k - 1
                      /\ RoundRecorded(messages', a, k)
                      /\ messages'[a + k].content = last'.res.output
                      /\ k < n => (pc' = "tools" /\ Len(messages') = a + k)
                      /\ k = n => /\ pc' = "prompt"
                                  /\ Len(messages') = a + n + 1
                                  /\ messages'[a + n + 1].role = "assistant"
                                  /\ messages'[a + n + 1].content = DENIAL_LIMIT_REPLY
             /\ last'.op = "final" =>
                   /\ turn.backend = 0
                   /\ pc' = "prompt"
                   /\ LastMessage(messages').content /= DENIAL_LIMIT_REPLY]_vars

\* a later turn ended with the denial-limit message after a call that ran
C38_Witness ==
    /\ turn.denials0 >= 3
    /\ denial_count = turn.denials0
    /\ last.op = "execute" /\ last.res.status = "ok"
    /\ pc = "prompt"
    /\ LastMessage(messages).content = DENIAL_LIMIT_REPLY

\* a later turn whose first response had no tool calls gave a normal reply
C38_ReplyWitness ==
    /\ turn.denials0 >= 3
    /\ last.op = "final"
    /\ LastMessage(messages).content = <<"hi">>

(***************************************************************************)
(* The session with the default configuration, long enough for the window  *)
(* of the payload slice (CONTEXT_WINDOW chat turns) to cut the log: every   *)
(* turn is answered at once or after one tool round.                       *)
(***************************************************************************)
\* user turns in the session
MaxWindowTurns == 11

NextWindow ==
    \/ UserInputIf(turn.n < MaxWindowTurns)
    \/ \E a \in SessionAnswers : SummarizeStep(a)
    \/ BackendFinalIf([text |-> <<"hi">>, hypothesis |-> <<>>], TRUE)
    \/ BackendToolsIf(<<Ls("c1")>>, loops = 0)
    \/ ExecTool

SpecWindow == InitTurns /\ [][NextWindow]_vars

\* C39: in every SUMMARY_PLUS_RECENT slice handed to a backend, each tool
\* message is preceded within the slice by the assistant message whose
\* tool_calls holds its tool_call_id.
C39_SlicePairsIntact ==
    last.op \in {"final", "tools", "failed"} =>
        \A i \in DOMAIN last.payload :
            last.payload[i].role = "tool"
                => \E j \in 1 .. i - 1 :
                      /\ last.payload[j].role = "assistant"
                      /\ \E c \in DOMAIN last.payload[j].tool_calls :
                            last.payload[j].tool_calls[c].id = last.payload[i].tool_call_id

\* the window left out the first turn and its tool round, without a summary,
\* and kept a later one
C39_Witness ==
    /\ last.op = "final"
    /\ summary = <<>>
    /\ messages[3].role = "assistant" /\ messages[3].tool_calls /= <<>>
    /\ messages[4].role = "tool"
    /\ last.payload[2] = messages[5]
    /\ \E i \in DOMAIN last.payload : last.payload[i].role = "tool"

\* C40: compaction is only attempted at the start of a user turn, after the
\* user message is appended and before generation: the summarizer is called at
\* most once per user turn and never between the rounds of a tool-call loop, so
\* the log only grows while a turn is being generated.
C40_CompactionOnlyAtTurnStart ==
    [][/\ turn'.summaries <= 1
       /\ last'.op = "compact" =>
             /\ pc = "summarize" /\ last.op = "user"
             /\ LastMessage(messages).role = "user"
             /\ loops' = 0 /\ turn.backend = 0
       /\ pc \in {"generate", "tools"} =>
             /\ last'.op /= "compact"
             /\ turn'.summaries = turn.summaries
             /\ summary' = summary
             /\ Len(messages') >= Len(messages)
             /\ SubSeq(messages', 1, Len(messages)) = messages]_vars

\* a turn that began with a summarizer call has gone through a tool round
C40_Witness ==
    /\ turn.summaries = 1
    /\ summary /= <<>>
    /\ last.op = "execute"
    /\ pc = "generate"
    /\ loops >= 1
====
